---------------------------- MODULE Spec2Model ----------------------------
(***************************************************************************)
(* A model of k8s-resource-analyzer: the quantity parsers and the         *)
(* constructor of K8sClient, the workload grouper and the replica-aware    *)
(* aggregator of PrometheusClient, the accurate sync, the report cache     *)
(* (MemoryReportCache), the quota store (Storage, QuotaManager), the rate  *)
(* calculator (Calculator) and the threads of the Scheduler.               *)
(*                                                                         *)
(* Numbers.  Python floats are modelled by exact dyadic-scaled rationals   *)
(* n/d * 2^e (plus inf and nan), kept in a canonical form so that "=" is   *)
(* numeric equality.  There rounding of the binary64 format is not         *)
(* modelled; on the numerals used every quotient by a power of 1024 is     *)
(* exact in binary64 and every quotient by 1000 is the correctly rounded   *)
(* one.  The aggregator in dict order is the exception: its peaks are      *)
(* binary64 values and its additions round as the format does.             *)
(***************************************************************************)
EXTENDS Integers, Sequences, FiniteSets, TLC

----------------------------------------------------------------------------
(* Arithmetic helpers                                                      *)

Abs(x) == IF x < 0 THEN -x ELSE x

Sign(x) == IF x < 0 THEN -1 ELSE 1

RECURSIVE GCD(_, _)
GCD(a, b) == IF b = 0 THEN a ELSE GCD(b, a % b)

RECURSIVE Pow2(_)
Pow2(k) == IF k <= 0 THEN 1 ELSE 2 * Pow2(k - 1)

RECURSIVE Pow10(_)
Pow10(k) == IF k <= 0 THEN 1 ELSE 10 * Pow10(k - 1)

\* the number of factors 2 of a positive integer
RECURSIVE Twos(_)
Twos(n) == IF n > 0 /\ n % 2 = 0 THEN 1 + Twos(n \div 2) ELSE 0

OddPart(n) == n \div Pow2(Twos(n))

----------------------------------------------------------------------------
(* Python numbers: float values and the exceptions float()/int() raise     *)

\* the finite value n/d * 2^e in canonical form: n and d odd and coprime,
\* d > 0; zero is 0/1 * 2^0
Fin(n, d, e) ==
    IF n = 0 THEN [k |-> "fin", n |-> 0, d |-> 1, e |-> 0]
    ELSE LET g  == GCD(Abs(n), d)
             n1 == Abs(n) \div g
             d1 == d \div g
         IN  [k |-> "fin", n |-> Sign(n) * OddPart(n1), d |-> OddPart(d1),
              e |-> e + Twos(n1) - Twos(d1)]

Whole(n) == Fin(n, 1, 0)

Zero == Whole(0)

Inf(s) == [k |-> "inf", n |-> s, d |-> 0, e |-> 0]

NaN == [k |-> "nan", n |-> 0, d |-> 0, e |-> 0]

\* an exception in flight: k is "ValueError" or "OverflowError"
Raise(name) == [k |-> name, n |-> 0, d |-> 0, e |-> 0]

IsRaise(x) == x.k \in {"ValueError", "OverflowError"}

\* x * c and x / c for a float x and a positive integer constant c
FMul(x, c) ==
    IF x.k = "fin" THEN Fin(x.n * OddPart(c), x.d, x.e + Twos(c)) ELSE x

FDiv(x, c) ==
    IF x.k = "fin" THEN Fin(x.n, x.d * OddPart(c), x.e - Twos(c)) ELSE x

\* int(x): truncation toward zero; OverflowError on inf, ValueError on nan
PyInt(x) ==
    CASE IsRaise(x) -> x
      [] x.k = "inf" -> Raise("OverflowError")
      [] x.k = "nan" -> Raise("ValueError")
      [] OTHER ->
           IF x.d = 1 /\ x.e >= 0 THEN x
           ELSE IF x.e >= 0
                THEN Whole(Sign(x.n) * ((Abs(x.n) * Pow2(x.e)) \div x.d))
                ELSE Whole(Sign(x.n) * (Abs(x.n) \div (x.d * Pow2(-x.e))))

----------------------------------------------------------------------------
(* Tokens: a str is a sequence of one-character strings; None is NoneTok   *)

NoneTok == <<"None">>

\* `not s` for a str-or-None value
Falsy(s) == s = NoneTok \/ s = <<>>

EndsWith(s, suf) ==
    /\ Len(s) >= Len(suf)
    /\ SubSeq(s, Len(s) - Len(suf) + 1, Len(s)) = suf

\* s[:-k]
DropLast(s, k) == SubSeq(s, 1, Len(s) - k)

Digits == {"0", "1", "2", "3", "4", "5", "6", "7", "8", "9"}

DigitVal(c) ==
    CASE c = "0" -> 0 [] c = "1" -> 1 [] c = "2" -> 2 [] c = "3" -> 3
      [] c = "4" -> 4 [] c = "5" -> 5 [] c = "6" -> 6 [] c = "7" -> 7
      [] c = "8" -> 8 [] c = "9" -> 9

AllDigits(s) == \A i \in 1..Len(s) : s[i] \in Digits

RECURSIVE DigitsVal(_)
DigitsVal(s) ==
    IF s = <<>> THEN 0
    ELSE 10 * DigitsVal(DropLast(s, 1)) + DigitVal(s[Len(s)])

\* float() of an unsigned body: digits, digits with one decimal point,
\* "inf" or "nan"; anything else is a ValueError
FloatUnsigned(u) ==
    LET dots == {i \in 1..Len(u) : u[i] = "."}
    IN  CASE u = <<"i", "n", "f">> -> Inf(1)
          [] u = <<"n", "a", "n">> -> NaN
          [] dots = {} /\ u # <<>> /\ AllDigits(u) -> Whole(DigitsVal(u))
          [] Cardinality(dots) = 1 /\ Len(u) >= 2 ->
               LET p  == CHOOSE i \in dots : TRUE
                   ip == SubSeq(u, 1, p - 1)
                   fp == SubSeq(u, p + 1, Len(u))
               IN  IF AllDigits(ip) /\ AllDigits(fp)
                   THEN Fin(DigitsVal(ip) * Pow10(Len(fp)) + DigitsVal(fp),
                            Pow10(Len(fp)), 0)
                   ELSE Raise("ValueError")
          [] OTHER -> Raise("ValueError")

Negate(x) ==
    CASE x.k = "fin" -> [x EXCEPT !.n = -x.n]
      [] x.k = "inf" -> Inf(-x.n)
      [] OTHER -> x

\* Python's float(str) on the characters of Alphabet (no whitespace, no
\* underscore, no exponent, lower-case inf/nan only)
PyFloat(s) ==
    IF s # <<>> /\ s[1] = "-" THEN Negate(FloatUnsigned(Tail(s)))
    ELSE IF s # <<>> /\ s[1] = "+" THEN FloatUnsigned(Tail(s))
    ELSE FloatUnsigned(s)

\* try: ... except: return 0
ExceptZero(r) == IF IsRaise(r) THEN Zero ELSE r

----------------------------------------------------------------------------
(* K8sClient._parse_cpu: one operator per return statement of the try body *)

\* mutant: the millicore suffix is stripped but the value is not scaled
cpu_m_unscaled(s) == PyFloat(DropLast(s, 1))

cpu_m(s) == FDiv(PyFloat(DropLast(s, 1)), 1000)

cpu_plain(s) == PyFloat(s)

parse_cpu(cpu_str) ==
    IF Falsy(cpu_str) \/ cpu_str = <<"0">> THEN Zero
    ELSE ExceptZero(
      CASE EndsWith(cpu_str, <<"m">>) -> cpu_m(cpu_str)
        [] OTHER -> cpu_plain(cpu_str))

(* K8sClient._parse_memory *)

memory_Ki(s) == FDiv(FDiv(PyFloat(DropLast(s, 2)), 1024), 1024)

memory_Mi(s) == FDiv(PyFloat(DropLast(s, 2)), 1024)

memory_Gi(s) == PyFloat(DropLast(s, 2))

memory_Ti(s) == FMul(PyFloat(DropLast(s, 2)), 1024)

\* mutant: K treated like Ki
memory_K_binary(s) == FDiv(FDiv(PyFloat(DropLast(s, 1)), 1024), 1024)

memory_K(s) == FDiv(FDiv(PyFloat(DropLast(s, 1)), 1000), 1024)

memory_M(s) == FDiv(PyFloat(DropLast(s, 1)), 1000)

memory_G(s) == PyFloat(DropLast(s, 1))

memory_plain(s) == FDiv(FDiv(FDiv(PyFloat(s), 1024), 1024), 1024)

parse_memory(mem_str) ==
    IF Falsy(mem_str) \/ mem_str = <<"0">> THEN Zero
    ELSE ExceptZero(
      CASE EndsWith(mem_str, <<"K", "i">>) -> memory_Ki(mem_str)
        [] EndsWith(mem_str, <<"M", "i">>) -> memory_Mi(mem_str)
        [] EndsWith(mem_str, <<"G", "i">>) -> memory_Gi(mem_str)
        [] EndsWith(mem_str, <<"T", "i">>) -> memory_Ti(mem_str)
        [] EndsWith(mem_str, <<"K">>) -> memory_K(mem_str)
        [] EndsWith(mem_str, <<"M">>) -> memory_M(mem_str)
        [] EndsWith(mem_str, <<"G">>) -> memory_G(mem_str)
        [] OTHER -> memory_plain(mem_str))

(* K8sClient._parse_quantity *)

quantity_k(s) == PyInt(FMul(PyFloat(DropLast(s, 1)), 1000))

\* mutant: m multiplies like k
quantity_m_times(s) == PyInt(FMul(PyFloat(DropLast(s, 1)), 1000))

quantity_m(s) == PyInt(FDiv(PyFloat(DropLast(s, 1)), 1000))

quantity_Ki(s) == PyInt(FMul(PyFloat(DropLast(s, 2)), 1024))

quantity_Mi(s) == PyInt(PyFloat(DropLast(s, 2)))

quantity_Gi(s) == PyInt(FMul(PyFloat(DropLast(s, 2)), 1024))

quantity_Ti(s) == PyInt(FMul(FMul(PyFloat(DropLast(s, 2)), 1024), 1024))

quantity_K(s) == PyInt(FMul(PyFloat(DropLast(s, 1)), 1000))

quantity_M(s) == PyInt(FMul(FMul(PyFloat(DropLast(s, 1)), 1000), 1000))

quantity_G(s) == PyInt(FMul(FMul(FMul(PyFloat(DropLast(s, 1)), 1000), 1000), 1000))

quantity_plain(s) == PyInt(PyFloat(s))

parse_quantity(qty) ==
    IF Falsy(qty) \/ qty = <<"0">> THEN Zero
    ELSE ExceptZero(
      CASE EndsWith(qty, <<"k">>) -> quantity_k(qty)
        [] EndsWith(qty, <<"m">>) -> quantity_m(qty)
        [] EndsWith(qty, <<"K", "i">>) -> quantity_Ki(qty)
        [] EndsWith(qty, <<"M", "i">>) -> quantity_Mi(qty)
        [] EndsWith(qty, <<"G", "i">>) -> quantity_Gi(qty)
        [] EndsWith(qty, <<"T", "i">>) -> quantity_Ti(qty)
        [] EndsWith(qty, <<"K">>) -> quantity_K(qty)
        [] EndsWith(qty, <<"M">>) -> quantity_M(qty)
        [] EndsWith(qty, <<"G">>) -> quantity_G(qty)
        [] OTHER -> quantity_plain(qty))

(* K8sClient._parse_storage *)

storage_Ki(s) == FDiv(FDiv(PyFloat(DropLast(s, 2)), 1024), 1024)

storage_Mi(s) == FDiv(PyFloat(DropLast(s, 2)), 1024)

storage_Gi(s) == PyFloat(DropLast(s, 2))

\* mutant: Ti scaled by 1000 in the storage parser only
storage_Ti_decimal(s) == FMul(PyFloat(DropLast(s, 2)), 1000)

storage_Ti(s) == FMul(PyFloat(DropLast(s, 2)), 1024)

storage_K(s) == FDiv(FDiv(PyFloat(DropLast(s, 1)), 1000), 1024)

storage_M(s) == FDiv(PyFloat(DropLast(s, 1)), 1000)

storage_G(s) == PyFloat(DropLast(s, 1))

storage_plain(s) == FDiv(FDiv(FDiv(PyFloat(s), 1024), 1024), 1024)

parse_storage(storage_str) ==
    IF Falsy(storage_str) \/ storage_str = <<"0">> THEN Zero
    ELSE ExceptZero(
      CASE EndsWith(storage_str, <<"K", "i">>) -> storage_Ki(storage_str)
        [] EndsWith(storage_str, <<"M", "i">>) -> storage_Mi(storage_str)
        [] EndsWith(storage_str, <<"G", "i">>) -> storage_Gi(storage_str)
        [] EndsWith(storage_str, <<"T", "i">>) -> storage_Ti(storage_str)
        [] EndsWith(storage_str, <<"K">>) -> storage_K(storage_str)
        [] EndsWith(storage_str, <<"M">>) -> storage_M(storage_str)
        [] EndsWith(storage_str, <<"G">>) -> storage_G(storage_str)
        [] OTHER -> storage_plain(storage_str))

----------------------------------------------------------------------------
(* PrometheusClient._extract_workload_name                                 *)

\* str.find('-') + 1
FirstDash(s) ==
    IF \E i \in 1..Len(s) : s[i] = "-"
    THEN CHOOSE i \in 1..Len(s) :
             s[i] = "-" /\ \A j \in 1..(i - 1) : s[j] # "-"
    ELSE 0

\* str.split('-')
RECURSIVE Split(_)
Split(s) ==
    LET i == FirstDash(s)
    IN  IF i = 0 THEN <<s>>
        ELSE <<SubSeq(s, 1, i - 1)>> \o Split(SubSeq(s, i + 1, Len(s)))

\* '-'.join(parts)
RECURSIVE Join(_)
Join(parts) ==
    IF parts = <<>> THEN <<>>
    ELSE IF Len(parts) = 1 THEN parts[1]
    ELSE parts[1] \o <<"-">> \o Join(Tail(parts))

\* str.isdigit() on the characters of the pod names modelled
IsDigit(s) == s # <<>> /\ AllDigits(s)

\* mutant: the last segment is dropped whatever it consists of
extract_any_suffix(name) ==
    LET parts == Split(name)
    IN  IF Len(parts) >= 2 THEN Join(SubSeq(parts, 1, Len(parts) - 1))
        ELSE name

extract_workload_name(name) ==
    LET parts == Split(name)
    IN  IF Len(parts) >= 2 /\ IsDigit(parts[Len(parts)])
        THEN Join(SubSeq(parts, 1, Len(parts) - 1))
        ELSE name

----------------------------------------------------------------------------
(* PrometheusClient._aggregate_by_replicas                                 *)
(* Peaks are whole numbers of a fixed unit (a tenth of a core, a tenth of  *)
(* a GiB), on which float addition is exact.                               *)

Min(a, b) == IF a < b THEN a ELSE b

Max(a, b) == IF a > b THEN a ELSE b

RECURSIVE SeqSum(_)
SeqSum(q) == IF q = <<>> THEN 0 ELSE Head(q) + SeqSum(Tail(q))

SeqMax(q) == CHOOSE x \in {q[i] : i \in 1..Len(q)} :
                 \A i \in 1..Len(q) : q[i] <= x

RemoveAt(q, i) == SubSeq(q, 1, i - 1) \o SubSeq(q, i + 1, Len(q))

\* sorted(q, reverse=True)
RECURSIVE SortedDesc(_)
SortedDesc(q) ==
    IF q = <<>> THEN <<>>
    ELSE LET i == CHOOSE j \in 1..Len(q) : q[j] = SeqMax(q)
         IN  <<q[i]>> \o SortedDesc(RemoveAt(q, i))

\* q[:k]
SliceTo(q, k) ==
    IF k >= 0 THEN SubSeq(q, 1, Min(k, Len(q)))
    ELSE SubSeq(q, 1, Max(0, Len(q) + k))

\* dict.get(key, default)
DictGet(dict, key, default) ==
    IF key \in DOMAIN dict THEN dict[key] ELSE default

ROLLING_UPDATE_TOLERANCE == [num |-> 3, den |-> 2]

\* mutant: the tolerance is not applied
max_allowed_exact(expected_replicas) == expected_replicas

\* mutant: one pod fewer than expected is allowed
max_allowed_one_less(expected_replicas) == expected_replicas - 1

\* int(expected_replicas * self.ROLLING_UPDATE_TOLERANCE)
max_allowed_of(expected_replicas) ==
    Sign(expected_replicas)
      * ((Abs(expected_replicas) * ROLLING_UPDATE_TOLERANCE.num)
           \div ROLLING_UPDATE_TOLERANCE.den)

\* mutant: a workload without a known replica count is truncated to nothing
expected_or_zero(replicas, workload, pod_count) ==
    DictGet(replicas, workload, 0)

\* expected_replicas after the fallback to the observed pod count
expected_or_observed(replicas, workload, pod_count) ==
    LET expected_replicas == DictGet(replicas, workload, 0)
    IN  IF expected_replicas = 0 THEN pod_count ELSE expected_replicas

\* the pods of a group in descending order of CPU peak (stable)
RECURSIVE ranked_by_cpu(_, _)
ranked_by_cpu(cpu, I) ==
    IF I = {} THEN <<>>
    ELSE LET i == CHOOSE j \in I :
                      \A k \in I : cpu[k] < cpu[j] \/ (cpu[k] = cpu[j] /\ j <= k)
         IN  <<i>> \o ranked_by_cpu(cpu, I \ {i})

\* mutant: the pods are ranked by CPU peak and the Memory peaks kept are
\* those of the pods kept
contribution_by_cpu_rank(data, workload, replicas) ==
    LET order       == ranked_by_cpu(data.cpu, 1..Len(data.cpu))
        cpu_values  == [i \in 1..Len(order) |-> data.cpu[order[i]]]
        mem_values  == [i \in 1..Len(order) |-> data.mem[order[i]]]
        pod_count   == Len(cpu_values)
        max_allowed ==
            max_allowed_of(expected_or_observed(replicas, workload, pod_count))
    IN  IF pod_count > max_allowed
        THEN [cpu |-> SeqSum(SliceTo(cpu_values, max_allowed)),
              mem |-> SeqSum(SliceTo(mem_values, max_allowed))]
        ELSE [cpu |-> SeqSum(cpu_values), mem |-> SeqSum(mem_values)]

\* one pass of the loop body: what the workload adds to the two totals
workload_contribution(data, workload, replicas) ==
    LET cpu_values  == SortedDesc(data.cpu)
        mem_values  == SortedDesc(data.mem)
        pod_count   == Len(cpu_values)
        max_allowed ==
            max_allowed_of(expected_or_observed(replicas, workload, pod_count))
    IN  IF pod_count > max_allowed
        THEN [cpu |-> SeqSum(SliceTo(cpu_values, max_allowed)),
              mem |-> SeqSum(SliceTo(mem_values, max_allowed))]
        ELSE [cpu |-> SeqSum(cpu_values), mem |-> SeqSum(mem_values)]

RECURSIVE SumOver(_, _, _)
SumOver(f, S, field) ==
    IF S = {} THEN 0
    ELSE LET x == CHOOSE y \in S : TRUE
         IN  f[x][field] + SumOver(f, S \ {x}, field)

\* mutant: the loop runs over the replica expectations and looks each
\* workload up in the pod groups, a KeyError for a workload without pods
aggregate_over_replicas(pods, replicas) ==
    IF DOMAIN replicas \subseteq DOMAIN pods
    THEN LET added == [w \in DOMAIN replicas |->
                          workload_contribution(pods[w], w, replicas)]
         IN  [done |-> TRUE, error |-> "none",
              total_cpu |-> SumOver(added, DOMAIN replicas, "cpu"),
              total_mem |-> SumOver(added, DOMAIN replicas, "mem"),
              added |-> added]
    ELSE [done |-> TRUE, error |-> "KeyError", total_cpu |-> 0,
          total_mem |-> 0, added |-> [w \in {} |-> 0]]

\* the totals returned, and what each workload added to them; the loop
\* body has no statement that can raise on the groups the grouper builds
aggregate_by_replicas(pods, replicas) ==
    LET added == [w \in DOMAIN pods |->
                     workload_contribution(pods[w], w, replicas)]
    IN  [done |-> TRUE, error |-> "none",
         total_cpu |-> SumOver(added, DOMAIN pods, "cpu"),
         total_mem |-> SumOver(added, DOMAIN pods, "mem"),
         added |-> added]

----------------------------------------------------------------------------
(* The aggregator on binary64 peaks, in dict order                         *)
(* Here a peak is a Python float as Prometheus delivers it.  A finite      *)
(* non-negative binary64 value is the set of the positions of its 1 bits   *)
(* (2^i for position i), and "+" rounds to 53 significant bits, ties to    *)
(* even.  workload_pods is a dict in insertion order: a sequence of        *)
(* <<workload, data>> pairs.                                               *)

\* the exact sum of two bit sets: A + B = (A xor B) + 2 * (A and B)
RECURSIVE BitsAdd(_, _)
BitsAdd(A, B) ==
    IF B = {} THEN A
    ELSE BitsAdd((A \cup B) \ (A \cap B), {i + 1 : i \in A \cap B})

MaxBit(S) == CHOOSE i \in S : \A j \in S : j <= i

\* round to nearest, ties to even, on a significand of 53 bits
Round53(S) ==
    IF S = {} THEN S
    ELSE LET m    == MaxBit(S)
             kept == {i \in S : i >= m - 52}
             rest == S \ kept
         IN  IF (m - 53) \notin rest THEN kept
             ELSE IF rest # {m - 53} \/ (m - 52) \in kept
                  THEN BitsAdd(kept, {m - 52})
                  ELSE kept

\* a + b on floats
float_add(a, b) == Round53(BitsAdd(a, b))

\* a < b on floats
float_less(a, b) == a # b /\ MaxBit((a \cup b) \ (a \cap b)) \in b

\* sorted(q, reverse=True) on floats
RECURSIVE sorted64(_)
sorted64(q) ==
    IF q = <<>> THEN <<>>
    ELSE LET i == CHOOSE j \in 1..Len(q) :
                      /\ \A k \in 1..Len(q) : ~ float_less(q[j], q[k])
                      /\ \A k \in 1..(j - 1) : float_less(q[k], q[j])
         IN  <<q[i]>> \o sorted64(RemoveAt(q, i))

\* sum(q): 0 + q[1] + q[2] + ..., from left to right
RECURSIVE sum64(_)
sum64(q) ==
    IF q = <<>> THEN {}
    ELSE float_add(sum64(SubSeq(q, 1, Len(q) - 1)), q[Len(q)])

\* the values of a workload that are summed
kept_values(values, workload, replicas) ==
    IF Len(values) > max_allowed_of(expected_or_observed(replicas, workload,
                                                         Len(values)))
    THEN SliceTo(sorted64(values),
                 max_allowed_of(expected_or_observed(replicas, workload,
                                                     Len(values))))
    ELSE sorted64(values)

\* the loop of _aggregate_by_replicas over workload_pods.items()
RECURSIVE aggregate_items(_, _)
aggregate_items(items, replicas) ==
    IF items = <<>> THEN [total_cpu |-> {}, total_mem |-> {}]
    ELSE LET n    == Len(items)
             prev == aggregate_items(SubSeq(items, 1, n - 1), replicas)
         IN  [total_cpu |->
                  float_add(prev.total_cpu,
                            sum64(kept_values(items[n][2].cpu, items[n][1],
                                              replicas))),
              total_mem |->
                  float_add(prev.total_mem,
                            sum64(kept_values(items[n][2].mem, items[n][1],
                                              replicas)))]

----------------------------------------------------------------------------
(* Storage (quotas.json), Calculator                                       *)
(* A dict is a sequence in insertion order.  Usage figures and caps are    *)
(* whole numbers; a rate is a float as above, or NoneVal.                  *)

NoneStr == "None"

NoneVal == [k |-> "none", n |-> 0, d |-> 0, e |-> 0]

NoQuota ==
    [cloud_id |-> NoneStr, project_name |-> NoneStr, cpu_quota |-> 0,
     memory_quota |-> 0]

Quota(cloud_id, project_name, cpu_quota, memory_quota) ==
    [cloud_id |-> cloud_id, project_name |-> project_name,
     cpu_quota |-> cpu_quota, memory_quota |-> memory_quota]

ProjectUsage(project_name, cpu_usage, memory_usage) ==
    [project_name |-> project_name, cloud_id |-> NoneStr,
     cpu_usage |-> cpu_usage, memory_usage |-> memory_usage,
     cpu_rate |-> NoneVal, memory_rate |-> NoneVal]

\* the first index at which the sequence of booleans holds TRUE, or 0
FirstTrue(b) ==
    IF \E i \in 1..Len(b) : b[i]
    THEN CHOOSE i \in 1..Len(b) : b[i] /\ \A j \in 1..(i - 1) : ~ b[j]
    ELSE 0

IndexOfCloudId(qs, cloud_id) ==
    FirstTrue([i \in 1..Len(qs) |-> qs[i].cloud_id = cloud_id])

IndexOfProject(q, project_name) ==
    FirstTrue([i \in 1..Len(q) |-> q[i].project_name = project_name])

\* Storage.get_quota
get_quota(qs, cloud_id) ==
    LET i == IndexOfCloudId(qs, cloud_id)
    IN  IF i = 0 THEN NoQuota ELSE qs[i]

\* Storage.get_quota_by_project
get_quota_by_project(qs, project_name) ==
    LET i == IndexOfProject(qs, project_name)
    IN  IF i = 0 THEN NoQuota ELSE qs[i]

\* Storage.add_quota: the quotas after the call and the value returned
storage_add_quota(qs, quota) ==
    IF get_quota(qs, quota.cloud_id) # NoQuota
    THEN [quotas |-> qs, ok |-> FALSE]
    ELSE [quotas |-> Append(qs, quota), ok |-> TRUE]

\* Storage.update_quota
storage_update_quota(qs, cloud_id, quota) ==
    LET i == IndexOfCloudId(qs, cloud_id)
    IN  IF i = 0 THEN [quotas |-> qs, ok |-> FALSE]
        ELSE [quotas |-> [qs EXCEPT ![i] = quota], ok |-> TRUE]

\* Storage.delete_quota
storage_delete_quota(qs, cloud_id) ==
    LET i == IndexOfCloudId(qs, cloud_id)
    IN  IF i = 0 THEN [quotas |-> qs, ok |-> FALSE]
        ELSE [quotas |-> SubSeq(qs, 1, i - 1) \o SubSeq(qs, i + 1, Len(qs)),
              ok |-> TRUE]

\* an Optional[float] field of QuotaUpdate
Some(v) == [some |-> TRUE, v |-> v]

NoneOpt == [some |-> FALSE, v |-> 0]

\* QuotaManager.update_quota: None fields of the update keep the old value
manager_update_quota(qs, cloud_id, update) ==
    LET existing == get_quota(qs, cloud_id)
    IN  IF existing = NoQuota THEN [quotas |-> qs, ok |-> FALSE]
        ELSE storage_update_quota(qs, cloud_id,
               Quota(cloud_id,
                     IF update.project_name # NoneStr
                     THEN update.project_name ELSE existing.project_name,
                     IF update.cpu_quota.some
                     THEN update.cpu_quota.v ELSE existing.cpu_quota,
                     IF update.memory_quota.some
                     THEN update.memory_quota.v ELSE existing.memory_quota))

\* Calculator.aggregate_by_project: a later entry of the same project
\* replaces the earlier one, in the earlier one's place
RECURSIVE aggregate_by_project(_)
aggregate_by_project(project_data) ==
    IF project_data = <<>> THEN <<>>
    ELSE LET n    == Len(project_data)
             rest == aggregate_by_project(SubSeq(project_data, 1, n - 1))
             last == project_data[n]
             u    == ProjectUsage(last.project_name,
                                  SeqSum([i \in 1..Len(last.namespaces) |->
                                             last.namespaces[i].cpu_usage]),
                                  SeqSum([i \in 1..Len(last.namespaces) |->
                                             last.namespaces[i].memory_usage]))
             i    == IndexOfProject(rest, last.project_name)
         IN  IF i = 0 THEN Append(rest, u) ELSE [rest EXCEPT ![i] = u]

\* mutant: the rate is not capped at 100
rate_uncapped(usage, cap) ==
    IF cap > 0 THEN Fin(usage * 100, cap, 0) ELSE Zero

\* min((usage / cap) * 100, 100.0) if cap > 0 else 0.0
rate_of(usage, cap) ==
    IF cap > 0
    THEN IF usage * 100 >= 100 * cap THEN Whole(100)
         ELSE Fin(usage * 100, cap, 0)
    ELSE Zero

\* mutant: a project without a quota is rated 0.0
rated_zero_without_quota(usage, qs) ==
    LET quota == get_quota_by_project(qs, usage.project_name)
    IN  IF quota # NoQuota
        THEN [usage EXCEPT
                !.cpu_rate = rate_of(usage.cpu_usage, quota.cpu_quota),
                !.memory_rate = rate_of(usage.memory_usage, quota.memory_quota),
                !.cloud_id = quota.cloud_id]
        ELSE [usage EXCEPT !.cpu_rate = Zero, !.memory_rate = Zero,
                           !.cloud_id = NoneStr]

\* the body of the loop of Calculator.calculate_rates
rated(usage, qs) ==
    LET quota == get_quota_by_project(qs, usage.project_name)
    IN  IF quota # NoQuota
        THEN [usage EXCEPT
                !.cpu_rate = rate_of(usage.cpu_usage, quota.cpu_quota),
                !.memory_rate = rate_of(usage.memory_usage, quota.memory_quota),
                !.cloud_id = quota.cloud_id]
        ELSE [usage EXCEPT !.cpu_rate = NoneVal, !.memory_rate = NoneVal,
                           !.cloud_id = NoneStr]

\* Calculator.calculate_rates
calculate_rates(project_usages, qs) ==
    [i \in 1..Len(project_usages) |-> rated(project_usages[i], qs)]

\* Calculator.process_report
process_report(project_data, qs) ==
    calculate_rates(aggregate_by_project(project_data), qs)

----------------------------------------------------------------------------
(* MemoryReportCache                                                       *)
(* ProjectUsage objects live in a heap (id -> fields); the cache maps a    *)
(* date to a list of object ids, so that a stored record and the caller's  *)
(* record are the same object, as in Python.                               *)

\* dict[key] = id on an insertion-ordered dict of <<key, id>> pairs
DictFind(dict, key) == FirstTrue([i \in 1..Len(dict) |-> dict[i][1] = key])

DictPut(dict, key, id) ==
    LET i == DictFind(dict, key)
    IN  IF i = 0 THEN Append(dict, <<key, id>>)
        ELSE [dict EXCEPT ![i] = <<key, id>>]

\* {u.project_name: u for u in existing}
RECURSIVE existing_dict_of(_, _)
existing_dict_of(h, existing) ==
    IF existing = <<>> THEN <<>>
    ELSE LET n == Len(existing)
         IN  DictPut(existing_dict_of(h, SubSeq(existing, 1, n - 1)),
                     h[existing[n]].project_name, existing[n])

\* mutant: the incoming record replaces the stored one
merge_replace(h, target, usage) ==
    [h EXCEPT ![target].cpu_usage = h[usage].cpu_usage,
              ![target].memory_usage = h[usage].memory_usage]

\* mutant: a merge also takes over the cloud_id and the rates that came in
merge_all_fields(h, target, usage) ==
    [h EXCEPT ![target].cpu_usage = @ + h[usage].cpu_usage,
              ![target].memory_usage = @ + h[usage].memory_usage,
              ![target].cloud_id = h[usage].cloud_id,
              ![target].cpu_rate = h[usage].cpu_rate,
              ![target].memory_rate = h[usage].memory_rate]

\* existing_dict[name].cpu_usage += usage.cpu_usage, then the same for
\* memory_usage (target and usage may be one object)
merge_into(h, target, usage) ==
    LET h1 == [h EXCEPT ![target].cpu_usage = @ + h[usage].cpu_usage]
    IN  [h1 EXCEPT ![target].memory_usage = @ + h1[usage].memory_usage]

\* the for loop of MemoryReportCache.add over the incoming objects
RECURSIVE add_loop(_, _, _)
add_loop(h, dict, usages) ==
    IF usages = <<>> THEN [heap |-> h, dict |-> dict]
    ELSE LET usage == Head(usages)
             name  == h[usage].project_name
             i     == DictFind(dict, name)
         IN  IF i # 0
             THEN add_loop(merge_into(h, dict[i][2], usage), dict,
                           Tail(usages))
             ELSE add_loop(h, DictPut(dict, name, usage), Tail(usages))

\* mutant: the incoming records are appended to the stored list
cache_add_appending(h, c, date, usages) ==
    [heap  |-> h,
     cache |-> [d \in DOMAIN c \cup {date} |->
                   IF d = date THEN DictGet(c, date, <<>>) \o usages
                   ELSE c[d]]]

\* MemoryReportCache.add: the heap and the cache after the call
cache_add(h, c, date, usages) ==
    LET existing == DictGet(c, date, <<>>)
        r        == add_loop(h, existing_dict_of(h, existing), usages)
        stored   == [i \in 1..Len(r.dict) |-> r.dict[i][2]]
    IN  [heap  |-> r.heap,
         cache |-> [d \in DOMAIN c \cup {date} |->
                       IF d = date THEN stored ELSE c[d]]]

\* the ids no list of the cache holds are garbage
Live(c) == UNION {{c[d][i] : i \in 1..Len(c[d])} : d \in DOMAIN c}

Collect(h, keep) == [id \in DOMAIN h \cap keep |-> h[id]]

\* n fresh object ids
RECURSIVE FreshIds(_, _)
FreshIds(used, n) ==
    IF n = 0 THEN <<>>
    ELSE LET id == CHOOSE x \in 1..(Cardinality(used) + 1) : x \notin used
         IN  <<id>> \o FreshIds(used \cup {id}, n - 1)

\* the heap with the records allocated under the ids
Allocate(h, ids, records) ==
    [id \in DOMAIN h \cup {ids[i] : i \in 1..Len(ids)} |->
        IF \E i \in 1..Len(ids) : ids[i] = id
        THEN records[CHOOSE i \in 1..Len(ids) : ids[i] = id]
        ELSE h[id]]

\* the loop of upload_reports over the files: a file whose name holds no
\* date is reported and skipped; the others go through process_report and
\* then report_cache.add
RECURSIVE upload_loop(_, _, _, _)
upload_loop(h, c, qs, files) ==
    IF files = <<>>
    THEN [heap |-> h, cache |-> c, uploaded |-> <<>>, errors |-> <<>>,
          calls |-> <<>>]
    ELSE LET n    == Len(files)
             prev == upload_loop(h, c, qs, SubSeq(files, 1, n - 1))
             file == files[n]
         IN  IF file.date = NoneStr
             THEN [prev EXCEPT !.errors = Append(@, file.filename)]
             ELSE LET project_usages ==
                          process_report(file.project_data, qs)
                      ids == FreshIds(DOMAIN prev.heap, Len(project_usages))
                      r   == cache_add(Allocate(prev.heap, ids,
                                                project_usages),
                                       prev.cache, file.date, ids)
                  IN  [heap |-> r.heap, cache |-> r.cache,
                       uploaded |->
                           Append(prev.uploaded,
                                  [filename |-> file.filename,
                                   date |-> file.date,
                                   record_count |-> Len(project_usages)]),
                       errors |-> prev.errors,
                       calls |-> Append(prev.calls,
                                        [date |-> file.date,
                                         usages |-> project_usages])]

\* get_report(date): the stored records that carry a cloud_id
get_report(h, c, date) ==
    SelectSeq([i \in 1..Len(c[date]) |-> h[c[date][i]]],
              LAMBDA u : u.cloud_id # NoneStr)

----------------------------------------------------------------------------
(* The accurate sync: K8sClient lookups, PrometheusClient grouping,        *)
(* sync_prometheus_usage_accurate                                          *)
(* A controller or pod name is a sequence of characters; a namespace, a    *)
(* project and a cluster name are strings.  A sample value is the number   *)
(* that float() reads from the response.                                   *)

\* what K8sClient._request and PrometheusClient._query return when the call
\* fails: None
NoResponse == [ok |-> FALSE, status |-> "None", items |-> <<>>]

Response(status, items) == [ok |-> TRUE, status |-> status, items |-> items]

\* name.startswith('kube-')
StartsWithKube(name) == name \in {"kube-system", "kube-public"}

\* K8sClient.__init__ and _setup_connection.  A kubeconfig is modelled by
\* its contexts list; an entry of the list is given as the values that
\* iterating over it yields, each either a str or a mapping with the name
\* of a cluster (a mapping entry yields its keys, which are strs).  The
\* loop header unpacks every entry into (ctx_name, context) and the body
\* calls context.get: an entry that does not yield two values raises
\* ValueError and a str in the second place raises AttributeError.  The
\* result is the exception raised, if any, and whether base_url was set.
StrValue == [kind |-> "str", cluster |-> ""]

MappingValue(cluster) == [kind |-> "dict", cluster |-> cluster]

K8sClient_init(kubeconfig) ==
    IF kubeconfig.contexts = <<>>
    THEN [error |-> NoneStr, base_url |-> FALSE]
    ELSE LET entry == kubeconfig.contexts[1]
         IN  IF Len(entry) # 2
             THEN [error |-> "ValueError", base_url |-> FALSE]
             ELSE IF entry[2].kind = "str"
             THEN [error |-> "AttributeError", base_url |-> FALSE]
             ELSE [error |-> NoneStr,
                   base_url |-> entry[2].cluster \in kubeconfig.clusters]

\* K8sClient.get_namespace_list
get_namespace_list(k) ==
    IF ~ k.namespaces.ok \/ k.namespaces.items = <<>> THEN <<>>
    ELSE SelectSeq(k.namespaces.items,
                   LAMBDA name : name # "" /\ ~ StartsWithKube(name))

\* replicas[f'{prefix}{name}'] = spec_replicas for every item with a name
RECURSIVE put_replicas(_, _, _)
put_replicas(replicas, prefix, items) ==
    IF items = <<>> THEN replicas
    ELSE LET item == Head(items)
             key  == prefix \o item.name
             next == IF item.name # <<>>
                     THEN [w \in DOMAIN replicas \cup {key} |->
                              IF w = key THEN item.replicas ELSE replicas[w]]
                     ELSE replicas
         IN  put_replicas(next, prefix, Tail(items))

DeployPrefix == <<"d", "e", "p", "l", "o", "y", "/">>

StatefulSetPrefix == <<"s", "s", "/">>

\* K8sClient.get_workload_replicas
get_workload_replicas(k, namespace) ==
    LET deploys == k.deployments[namespace]
        sets    == k.statefulsets[namespace]
        first   == IF deploys.ok
                   THEN put_replicas([w \in {} |-> 0], DeployPrefix,
                                     deploys.items)
                   ELSE [w \in {} |-> 0]
    IN  IF sets.ok THEN put_replicas(first, StatefulSetPrefix, sets.items)
        ELSE first

\* K8sClient.get_namespace_with_project: the project_name of the dict
\* returned, or NoneStr when None is returned
get_namespace_with_project(k, namespace) ==
    IF k.info[namespace].ok THEN k.info[namespace].project_name ELSE NoneStr

BytesPerGiB == 1073741824

\* pod_cpu_peaks / pod_mem_peaks: pod -> peak, in insertion order; scale is
\* the divisor applied to the value read
RECURSIVE pod_peaks(_, _)
pod_peaks(items, scale) ==
    IF items = <<>> THEN <<>>
    ELSE LET n    == Len(items)
             rest == pod_peaks(SubSeq(items, 1, n - 1), scale)
         IN  IF items[n].pod # <<>>
             THEN DictPut(rest, items[n].pod, items[n].value \div scale)
             ELSE rest

\* the peaks taken from one query result
peaks_of(result, scale) ==
    IF result.ok /\ result.status = "success"
    THEN pod_peaks(result.items, scale)
    ELSE <<>>

\* pod_mem_peaks.get(pod, 0)
PeakGet(peaks, pod) ==
    LET i == DictFind(peaks, pod) IN IF i = 0 THEN 0 ELSE peaks[i][2]

\* for pod in pod_cpu_peaks.keys(): the loop that fills workload_pods, over
\* the first n keys
RECURSIVE group_pods(_, _, _)
group_pods(pod_cpu_peaks, pod_mem_peaks, n) ==
    IF n = 0 THEN [w \in {} |-> 0]
    ELSE LET groups == group_pods(pod_cpu_peaks, pod_mem_peaks, n - 1)
             pod    == pod_cpu_peaks[n][1]
             w      == extract_workload_name(pod)
             old    == IF w \in DOMAIN groups THEN groups[w]
                       ELSE [pods |-> <<>>, cpu |-> <<>>, mem |-> <<>>]
             new    == [pods |-> Append(old.pods, pod),
                        cpu  |-> Append(old.cpu, PeakGet(pod_cpu_peaks, pod)),
                        mem  |-> Append(old.mem, PeakGet(pod_mem_peaks, pod))]
         IN  [v \in DOMAIN groups \cup {w} |->
                 IF v = w THEN new ELSE groups[v]]

\* PrometheusClient._get_pod_peaks_by_workload
get_pod_peaks_by_workload(p, namespace) ==
    LET pod_cpu_peaks == peaks_of(p[namespace].cpu, 1)
        pod_mem_peaks == peaks_of(p[namespace].mem, BytesPerGiB)
    IN  group_pods(pod_cpu_peaks, pod_mem_peaks, Len(pod_cpu_peaks))

\* the NamespaceUsageDetail of one namespace, with what it was computed from
NamespaceUsageDetail(namespace, project, replicas, groups, totals) ==
    [namespace |-> namespace,
     project_name |-> IF project = NoneStr THEN "" ELSE project,
     cpu_usage |-> totals.total_cpu,
     memory_usage |-> totals.total_mem,
     workload_pods |-> groups,
     workload_replicas |-> replicas,
     added |-> totals.added]

\* PrometheusClient.get_namespace_usage_accurate, with the lookups
\* get_all_namespaces_usage_accurate makes around it for one namespace
namespace_usage_accurate(k, p, namespace) ==
    NamespaceUsageDetail(
        namespace,
        get_namespace_with_project(k, namespace),
        get_workload_replicas(k, namespace),
        get_pod_peaks_by_workload(p, namespace),
        aggregate_by_replicas(get_pod_peaks_by_workload(p, namespace),
                              get_workload_replicas(k, namespace)))

\* mutant: the loop stops at the first namespace without pod samples
usages_until_degraded(k, p, namespaces) ==
    LET all == [i \in 1..Len(namespaces) |->
                   namespace_usage_accurate(k, p, namespaces[i])]
        bad == {i \in 1..Len(all) : DOMAIN all[i].workload_pods = {}}
    IN  IF bad = {} THEN all
        ELSE SubSeq(all, 1, (CHOOSE i \in bad : \A j \in bad : i <= j) - 1)

\* PrometheusClient.get_all_namespaces_usage_accurate
get_all_namespaces_usage_accurate(k, p, namespaces) ==
    [i \in 1..Len(namespaces) |-> namespace_usage_accurate(k, p, namespaces[i])]

\* the answer of the namespace quota lookup when there is no quota: None
NoNamespaceQuota == [exists |-> FALSE, cpu_limit |-> 0, memory_limit |-> 0]

NamespaceQuota(cpu_limit, memory_limit) ==
    [exists |-> TRUE, cpu_limit |-> cpu_limit, memory_limit |-> memory_limit]

\* f"{cluster_name}__{namespace}"
QuotaKey(cluster_name, namespace) == cluster_name \o "__" \o namespace

\* storage.get_namespace_quota(cluster_name, namespace)
get_namespace_quota(store, cluster_name, namespace) ==
    LET key == QuotaKey(cluster_name, namespace)
    IN  IF key \in DOMAIN store THEN store[key] ELSE NoNamespaceQuota

\* min(usage / limit * 100, 100)
capped_percent(usage, limit) ==
    IF usage * 100 >= 100 * limit THEN Whole(100)
    ELSE Fin(usage * 100, limit, 0)

\* the two assignments that follow the lookup: a rate is set only under a
\* quota whose limit is positive
accurate_rates(project_usage, usage, ns_quota) ==
    [project_usage EXCEPT
        !.cpu_rate =
            IF ns_quota.exists /\ ns_quota.cpu_limit > 0
            THEN capped_percent(usage.cpu_usage, ns_quota.cpu_limit) ELSE @,
        !.memory_rate =
            IF ns_quota.exists /\ ns_quota.memory_limit > 0
            THEN capped_percent(usage.memory_usage, ns_quota.memory_limit)
            ELSE @]

\* what follows report_cache.add in the loop body: r is the heap and the
\* cache the add left, id the object project_usage names
sync_body(prev, id, usage, quota, r) ==
    [heap |-> [r.heap EXCEPT ![id] = accurate_rates(@, usage, quota)],
     cache |-> r.cache,
     project_usages |->
         Append(prev.project_usages,
                accurate_rates(r.heap[id], usage, quota))]

\* the loop of sync_prometheus_usage_accurate over the usages: the heap and
\* the cache after it, and each project_usage as the loop body left it
RECURSIVE sync_loop(_, _, _, _, _, _)
sync_loop(h, c, store, cluster_name, date, usages) ==
    IF usages = <<>> THEN [heap |-> h, cache |-> c, project_usages |-> <<>>]
    ELSE LET n     == Len(usages)
             prev  == sync_loop(h, c, store, cluster_name, date,
                                SubSeq(usages, 1, n - 1))
             usage == usages[n]
             name  == IF usage.project_name = "" THEN usage.namespace
                      ELSE usage.project_name
             id    == FreshIds(DOMAIN prev.heap, 1)[1]
             built == [ProjectUsage(name, usage.cpu_usage, usage.memory_usage)
                          EXCEPT !.cloud_id =
                                     QuotaKey(cluster_name, usage.namespace)]
             quota == get_namespace_quota(store, cluster_name, usage.namespace)
         IN  sync_body(prev, id, usage, quota,
                       cache_add(Allocate(prev.heap, <<id>>, <<built>>),
                                 prev.cache, date, <<id>>))

\* the SyncResult of a sync that went through the loop, with the usages it
\* read and what the loop r left
SyncResult(usages, r) ==
    [done |-> TRUE, success |-> TRUE, imported |-> Len(usages),
     errors |-> <<>>, usages |-> usages, project_usages |-> r.project_usages,
     heap |-> r.heap, cache |-> r.cache]

\* sync_prometheus_usage_accurate: the SyncResult, the heap and the cache
\* after the call, and what the call computed on the way
sync_prometheus_usage_accurate(k, p, store, h, c, cluster_name, date) ==
    LET namespaces == get_namespace_list(k)
    IN  IF namespaces = <<>>
        THEN [done |-> TRUE, success |-> FALSE, imported |-> 0,
              errors |-> <<"No namespaces found">>, usages |-> <<>>,
              project_usages |-> <<>>, heap |-> h, cache |-> c]
        ELSE SyncResult(
                 get_all_namespaces_usage_accurate(k, p, namespaces),
                 sync_loop(h, c, store, cluster_name, date,
                           get_all_namespaces_usage_accurate(k, p,
                                                             namespaces)))

----------------------------------------------------------------------------
(* Storage on quotas.json with its keys explicit                           *)
(* The file holds a dict in insertion order: a sequence of items, each a   *)
(* key and the Quota stored under it.                                      *)

Item(key, value) == [key |-> key, value |-> value]

\* the position of a key in the dict, or 0
KeyIndex(items, key) ==
    FirstTrue([i \in 1..Len(items) |-> items[i].key = key])

\* quotas.get(cloud_id)
quotas_get(items, cloud_id) ==
    LET i == KeyIndex(items, cloud_id)
    IN  IF i = 0 THEN NoQuota ELSE items[i].value

\* mutant: an existing entry is overwritten before False is returned
add_quota_overwriting(items, quota) ==
    LET i == KeyIndex(items, quota.cloud_id)
    IN  IF i # 0
        THEN [quotas |-> [items EXCEPT ![i] = Item(quota.cloud_id, quota)],
              ok |-> FALSE]
        ELSE [quotas |-> Append(items, Item(quota.cloud_id, quota)),
              ok |-> TRUE]

\* Storage.add_quota: the dict saved (or left) and the value returned
add_quota(items, quota) ==
    IF KeyIndex(items, quota.cloud_id) # 0
    THEN [quotas |-> items, ok |-> FALSE]
    ELSE [quotas |-> Append(items, Item(quota.cloud_id, quota)),
          ok |-> TRUE]

\* Storage.update_quota: the quota is stored under the key given, whatever
\* its own cloud_id
update_quota(items, cloud_id, quota) ==
    LET i == KeyIndex(items, cloud_id)
    IN  IF i = 0 THEN [quotas |-> items, ok |-> FALSE]
        ELSE [quotas |-> [items EXCEPT ![i] = Item(cloud_id, quota)],
              ok |-> TRUE]

\* Storage.delete_quota
delete_quota(items, cloud_id) ==
    LET i == KeyIndex(items, cloud_id)
    IN  IF i = 0 THEN [quotas |-> items, ok |-> FALSE]
        ELSE [quotas |-> SubSeq(items, 1, i - 1)
                           \o SubSeq(items, i + 1, Len(items)),
              ok |-> TRUE]

\* QuotaManager.add_quota
QuotaManager_add_quota(items, cloud_id, project_name, cpu, memory) ==
    add_quota(items, Quota(cloud_id, project_name, cpu, memory))

\* QuotaManager.update_quota: ok is FALSE where the code returns None;
\* what Storage.update_quota returns is dropped
QuotaManager_update_quota(items, cloud_id, update) ==
    LET existing == quotas_get(items, cloud_id)
    IN  IF existing = NoQuota THEN [quotas |-> items, ok |-> FALSE]
        ELSE [quotas |->
                  update_quota(items, cloud_id,
                      Quota(cloud_id,
                            IF update.project_name # NoneStr
                            THEN update.project_name
                            ELSE existing.project_name,
                            IF update.cpu_quota.some
                            THEN update.cpu_quota.v ELSE existing.cpu_quota,
                            IF update.memory_quota.some
                            THEN update.memory_quota.v
                            ELSE existing.memory_quota)).quotas,
              ok |-> TRUE]

\* QuotaManager.delete_quota
QuotaManager_delete_quota(items, cloud_id) == delete_quota(items, cloud_id)

----------------------------------------------------------------------------
(* The state                                                               *)

VARIABLES
    token,              \* the quantity token handed to the parsers
    parsed,             \* what each parser returned (Unset: not called yet)
    workload_pods,      \* workload -> the cpu and mem peaks of its pods
    workload_replicas,  \* workload -> expected replica count
    agg,                \* the outcome of _aggregate_by_replicas
    quotas,             \* the content of quotas.json, in dict order
    heap,               \* the live ProjectUsage objects, by object id
    cache,              \* MemoryReportCache._cache: date -> list of ids
    ret,                \* what the last call returned
    log,                \* history: the add calls made so far
    pod_name,           \* the pod name handed to _extract_workload_name
    workload,           \* the workload key it returned (NoneTok: not called)
    threads,            \* the add call each thread is in, and its locals
    k8s,                \* what the cluster's API server answers
    prom,               \* what Prometheus answers, per namespace
    ns_quotas,          \* the namespace quotas, by "cluster__namespace"
    sync,               \* the outcome of sync_prometheus_usage_accurate
    peak_items,         \* workload_pods.items() with binary64 peaks
    totals64,           \* the totals _aggregate_by_replicas returned for them
    scheduler,          \* the Scheduler object and the threads it started
    k8s_client,         \* the kubeconfig and the K8sClient built from it
    quotas_json         \* quotas.json as a dict with its keys: the items

vars ==
    <<token, parsed, workload_pods, workload_replicas, agg, quotas, heap,
      cache, ret, log, pod_name, workload, threads, k8s, prom, ns_quotas,
      sync, peak_items, totals64, scheduler,
      k8s_client, quotas_json>>

parseVars == <<token, parsed>>

aggVars == <<workload_pods, workload_replicas, agg>>

storeVars == <<quotas, heap, cache, ret, log>>

groupVars == <<pod_name, workload>>

syncVars == <<k8s, prom, ns_quotas, sync>>

orderVars == <<peak_items, totals64>>

\* the variables of the aggregation in dict order, of the scheduler, of
\* the client's construction and of the keyed quota file
lateVars == <<orderVars, scheduler, k8s_client, quotas_json>>

\* the variables of the grouper, of the threads, of the accurate sync and
\* the later ones
extVars == <<groupVars, threads, syncVars, lateVars>>

----------------------------------------------------------------------------
(* Quantity tokens                                                         *)

MaxTokenLen == 3

Alphabet ==
    {"0", "1", "5", ".", "-", "m", "k", "K", "M", "G", "T", "i", "x", "n",
     "a", "f"}

\* every str over Alphabet of at most MaxTokenLen characters
ShortTokens == UNION {[1..n -> Alphabet] : n \in 0..MaxTokenLen}

Numerals ==
   {
    <<"0">>, <<"1">>, <<"2">>, <<"5">>, <<"9", "9", "9">>,
    <<"1", "0", "0", "0">>, <<"1", "0", "2", "4">>, <<"1", "5", "0", "0">>,
    <<"2", "5", "0", "0">>, <<"1", "0", "4", "8", "5", "7", "6">>,
    <<"1", "0", "7", "3", "7", "4", "1", "8", "2", "4">>,
    <<"1", ".", "5">>, <<"0", ".", "5">>, <<"-", "1">>, <<"i", "n", "f">>,
    <<"n", "a", "n">>, <<>>
   }

Suffixes ==
   {
    <<>>, <<"m">>, <<"k">>, <<"K">>, <<"M">>, <<"G">>, <<"K", "i">>,
    <<"M", "i">>, <<"G", "i">>, <<"T", "i">>, <<"x">>, <<"E">>,
    <<"P", "i">>, <<"m", "i">>
   }

Tokens == ShortTokens \cup {n \o x : n \in Numerals, x \in Suffixes}
                      \cup {NoneTok}

Unset == [k |-> "unset", n |-> 0, d |-> 0, e |-> 0]

NoneParsed ==
    [cpu |-> Unset, memory |-> Unset, storage |-> Unset, quantity |-> Unset]

EmptyDict == [x \in {} |-> 0]

NoAgg == [done |-> FALSE, error |-> "none", total_cpu |-> 0, total_mem |-> 0,
          added |-> EmptyDict]

IdleParse == token = NoneTok /\ parsed = NoneParsed

IdleAgg ==
    /\ workload_pods = EmptyDict
    /\ workload_replicas = EmptyDict
    /\ agg = NoAgg

IdleGroup == pod_name = NoneTok /\ workload = NoneTok

ThreadIds == {"scheduler", "upload"}

\* a thread that is not inside MemoryReportCache.add
IdleThread ==
    [pc |-> "idle", date |-> NoneStr, usages |-> <<>>, existing_dict |-> <<>>,
     i |-> 0, tmp |-> 0]

IdleThreads == threads = [t \in ThreadIds |-> IdleThread]

NoSync ==
    [done |-> FALSE, success |-> FALSE, imported |-> 0, errors |-> <<>>,
     usages |-> <<>>, project_usages |-> <<>>]

\* no cluster, no Prometheus and no namespace quota are configured
IdleSync ==
    /\ k8s = [namespaces |-> NoResponse, deployments |-> EmptyDict,
              statefulsets |-> EmptyDict, info |-> EmptyDict]
    /\ prom = EmptyDict
    /\ ns_quotas = EmptyDict
    /\ sync = NoSync

NoTotals == [done |-> FALSE, total_cpu |-> {}, total_mem |-> {}]

IdleOrder == peak_items = <<>> /\ totals64 = NoTotals

\* Scheduler.__init__: not running, no thread (thread 0 is None); loops
\* holds the position of every thread started so far, calls the history of
\* the start and stop calls
NewScheduler ==
    [running |-> FALSE, thread |-> 0, loops |-> <<>>, calls |-> <<>>]

IdleSched == scheduler = NewScheduler

IdleFile == quotas_json = <<>>

\* no client has been built; the kubeconfig holds no context
NoKubeconfig == [contexts |-> <<>>, clusters |-> {}]

NewClient(kubeconfig) ==
    [kubeconfig |-> kubeconfig, built |-> FALSE, error |-> NoneStr,
     base_url |-> FALSE]

IdleClient == k8s_client = NewClient(NoKubeconfig)

IdleLate == IdleOrder /\ IdleSched /\ IdleClient /\ IdleFile

IdleExt == IdleGroup /\ IdleThreads /\ IdleSync /\ IdleLate

NoRet == [op |-> "none", ok |-> TRUE, usages |-> <<>>, input |-> <<>>]

\* the state after construction: quotas.json holds {}, the cache is empty
InitStore ==
    /\ quotas = <<>>
    /\ heap = EmptyDict
    /\ cache = EmptyDict
    /\ ret = NoRet
    /\ log = <<>>

InitParse ==
    /\ token \in Tokens
    /\ parsed = NoneParsed
    /\ IdleAgg
    /\ InitStore
    /\ IdleExt

ParseCpu ==
    /\ parsed.cpu = Unset
    /\ parsed' = [parsed EXCEPT !.cpu = parse_cpu(token)]
    /\ UNCHANGED <<token, aggVars, storeVars, extVars>>

ParseMemory ==
    /\ parsed.memory = Unset
    /\ parsed' = [parsed EXCEPT !.memory = parse_memory(token)]
    /\ UNCHANGED <<token, aggVars, storeVars, extVars>>

ParseStorage ==
    /\ parsed.storage = Unset
    /\ parsed' = [parsed EXCEPT !.storage = parse_storage(token)]
    /\ UNCHANGED <<token, aggVars, storeVars, extVars>>

ParseQuantity ==
    /\ parsed.quantity = Unset
    /\ parsed' = [parsed EXCEPT !.quantity = parse_quantity(token)]
    /\ UNCHANGED <<token, aggVars, storeVars, extVars>>

NextParse == ParseCpu \/ ParseMemory \/ ParseStorage \/ ParseQuantity

SpecParse == InitParse /\ [][NextParse]_vars

----------------------------------------------------------------------------
(* The workload grouper on one pod name                                    *)

MaxNameLen == 4

NameAlphabet == {"w", "b", "-", "0", "7"}

\* the pods of a stateful set, of a deployment, and names of other shapes
PodNameExamples ==
   {
    <<"w", "e", "b", "-", "0">>, <<"w", "e", "b", "-", "1", "2">>,
    <<"a", "p", "p", "-", "7", "f", "9", "c", "5", "d", "-", "x", "2", "j",
      "4", "k">>,
    <<"a", "p", "p", "-", "7", "f", "9", "-", "4", "2", "7", "1", "0">>,
    <<"m", "y", "-", "d", "b", "-", "0">>, <<"1", "2", "3">>
   }

PodNames ==
    UNION {[1..n -> NameAlphabet] : n \in 0..MaxNameLen} \cup PodNameExamples

InitGroup ==
    /\ IdleParse
    /\ IdleAgg
    /\ InitStore
    /\ pod_name \in PodNames
    /\ workload = NoneTok
    /\ IdleThreads
    /\ IdleSync
    /\ IdleLate

ExtractWorkloadName ==
    /\ workload = NoneTok
    /\ workload' = extract_workload_name(pod_name)
    /\ UNCHANGED <<parseVars, aggVars, storeVars, pod_name, threads,
                   syncVars, lateVars>>

NextGroup == ExtractWorkloadName

SpecGroup == InitGroup /\ [][NextGroup]_vars

----------------------------------------------------------------------------
(* The aggregation pass over one namespace                                 *)

MaxPods == 5

MaxReplicas == 2

Workloads == {"web", "db"}

CpuPeaks == {9, 10}

MemPeaks == {0, 10}

PodSamples == [cpu : CpuPeaks, mem : MemPeaks]

\* the groups _get_pod_peaks_by_workload can build: every group holds at
\* least one pod, and the two peak lists of a group are equally long
GroupOf(q) ==
    [cpu |-> [i \in 1..Len(q) |-> q[i].cpu],
     mem |-> [i \in 1..Len(q) |-> q[i].mem]]

Groups(maxLen) ==
    {GroupOf(q) : q \in UNION {[1..n -> PodSamples] : n \in 1..maxLen}}

\* the second workload has one pod, and a replica count of 1 when it has one
DbGroup == [cpu |-> <<10>>, mem |-> <<10>>]

InitAgg ==
    /\ IdleParse
    /\ InitStore
    /\ IdleExt
    /\ \E S \in SUBSET Workloads :
          workload_pods \in
              {f \in [S -> Groups(MaxPods)] : "db" \in S => f["db"] = DbGroup}
    /\ \E S \in SUBSET Workloads :
          workload_replicas \in
              {f \in [S -> 0..MaxReplicas] : "db" \in S => f["db"] = 1}
    /\ agg = NoAgg

AggregateByReplicas ==
    /\ ~ agg.done
    /\ agg' = aggregate_by_replicas(workload_pods, workload_replicas)
    /\ UNCHANGED <<parseVars, workload_pods, workload_replicas, storeVars,
                   extVars>>

NextAgg == AggregateByReplicas

SpecAgg == InitAgg /\ [][NextAgg]_vars

----------------------------------------------------------------------------
(* The aggregation pass in dict order, on binary64 peaks                   *)

MaxGroupPods == 2

\* float("0.1"), float("0.2"), float("0.3") and float("0.5")
Tenth ==
    {-4 - 4 * k : k \in 0..11} \cup {-5 - 4 * k : k \in 0..11}
      \cup {-52, -53, -55}

Fifth == {i + 1 : i \in Tenth}

ThreeTenths ==
    {-2} \cup {-5 - 4 * k : k \in 0..11} \cup {-6 - 4 * k : k \in 0..11}
      \cup {-53, -54}

Half == {-1}

Peaks64 == {Tenth, Fifth, ThreeTenths}

\* web is observed with up to MaxGroupPods pods, db and app with one
Groups64(w) ==
    {[cpu |-> q, mem |-> [i \in 1..Len(q) |-> Half]] :
        q \in UNION {[1..n -> Peaks64] :
                        n \in 1..(IF w = "web" THEN MaxGroupPods ELSE 1)}}

Workloads64 == {"web", "db", "app"}

\* workload_pods.items(): each workload at most once, in any order
OrderedDicts ==
    {q \in UNION {[1..n -> UNION {{<<w, g>> : g \in Groups64(w)} :
                                    w \in Workloads64}] :
                     n \in 0..Cardinality(Workloads64)} :
        \A i, j \in 1..Len(q) : i # j => q[i][1] # q[j][1]}

InitOrder ==
    /\ IdleParse
    /\ InitStore
    /\ IdleGroup
    /\ IdleThreads
    /\ IdleSync
    /\ workload_pods = EmptyDict
    /\ workload_replicas \in {EmptyDict, [w \in {"web"} |-> 1]}
    /\ agg = NoAgg
    /\ peak_items \in OrderedDicts
    /\ totals64 = NoTotals
    /\ IdleSched
    /\ IdleClient
    /\ IdleFile

AggregateItems ==
    /\ ~ totals64.done
    /\ \E r \in {aggregate_items(peak_items, workload_replicas)} :
           totals64' = [done |-> TRUE, total_cpu |-> r.total_cpu,
                        total_mem |-> r.total_mem]
    /\ UNCHANGED <<parseVars, aggVars, storeVars, groupVars, threads,
                   syncVars, peak_items, scheduler, k8s_client,
                   quotas_json>>

NextOrder == AggregateItems

SpecOrder == InitOrder /\ [][NextOrder]_vars

----------------------------------------------------------------------------
(* The quota store and the rate calculator                                 *)

MaxNamespaces == 2

CloudIds == {"c1", "c2"}

Projects == {"p1", "p2"}

Caps == {0, 100}

QuotaInputs ==
    {Quota(c, p, x, y) : c \in CloudIds, p \in Projects, x \in Caps, y \in Caps}

QuotaUpdates ==
    [project_name : Projects \cup {NoneStr},
     cpu_quota : {NoneOpt} \cup {Some(x) : x \in Caps},
     memory_quota : {NoneOpt} \cup {Some(x) : x \in Caps}]

\* the per-namespace lines of an uploaded report
NamespaceUsages ==
    {[cpu_usage |-> 50, memory_usage |-> 25],
     [cpu_usage |-> 100, memory_usage |-> 50]}

NamespaceLists == UNION {[1..n -> NamespaceUsages] : n \in 1..MaxNamespaces}

\* what ReportParser.parse_file returns: each project once, in file order
\* (the second project is kept to one namespace line)
ProjectDatas ==
    {q \in UNION {[1..n -> [project_name : Projects,
                            namespaces : NamespaceLists]] :
                     n \in 0..Cardinality(Projects)} :
        /\ \A i, j \in 1..Len(q) :
               i # j => q[i].project_name # q[j].project_name
        /\ \A i \in 1..Len(q) :
               q[i].project_name = "p2" => Len(q[i].namespaces) = 1}

\* The objects of an earlier response that the cache does not hold are
\* unreachable once the next request starts: each handler drops them.

\* create_quota -> QuotaManager.add_quota -> Storage.add_quota
AddQuota ==
    \E quota \in QuotaInputs :
        LET r == storage_add_quota(quotas, quota)
        IN  /\ quotas' = r.quotas
            /\ ret' = [NoRet EXCEPT !.op = "add_quota", !.ok = r.ok]
            /\ heap' = Collect(heap, Live(cache))
            /\ UNCHANGED <<parseVars, aggVars, cache, log, extVars>>

\* update_quota -> QuotaManager.update_quota -> Storage.update_quota
UpdateQuota ==
    \E cloud_id \in CloudIds, update \in QuotaUpdates :
        LET r == manager_update_quota(quotas, cloud_id, update)
        IN  /\ quotas' = r.quotas
            /\ ret' = [NoRet EXCEPT !.op = "update_quota", !.ok = r.ok]
            /\ heap' = Collect(heap, Live(cache))
            /\ UNCHANGED <<parseVars, aggVars, cache, log, extVars>>

\* delete_quota -> QuotaManager.delete_quota -> Storage.delete_quota
DeleteQuota ==
    \E cloud_id \in CloudIds :
        LET r == storage_delete_quota(quotas, cloud_id)
        IN  /\ quotas' = r.quotas
            /\ ret' = [NoRet EXCEPT !.op = "delete_quota", !.ok = r.ok]
            /\ heap' = Collect(heap, Live(cache))
            /\ UNCHANGED <<parseVars, aggVars, cache, log, extVars>>

\* Calculator.process_report on a parsed report; the returned list holds
\* fresh ProjectUsage objects
ProcessReport ==
    \E project_data \in ProjectDatas :
        LET usages == process_report(project_data, quotas)
            ids    == FreshIds(Live(cache), Len(usages))
        IN  /\ heap' = Allocate(Collect(heap, Live(cache)), ids, usages)
            /\ ret' = [op |-> "process_report", ok |-> TRUE, usages |-> ids,
                       input |-> project_data]
            /\ UNCHANGED <<parseVars, aggVars, quotas, cache, log, extVars>>

InitCalc == IdleParse /\ IdleAgg /\ InitStore /\ IdleExt

\* (add and delete alone reach every content quotas.json can have)
NextCalc == AddQuota \/ DeleteQuota \/ ProcessReport

SpecCalc == InitCalc /\ [][NextCalc]_vars

----------------------------------------------------------------------------
(* The report cache                                                        *)

MaxAdds == 2

Dates == {"2024-01-01", "2024-01-02"}

\* the records a caller hands to add: ProjectUsage objects it has just built
IncomingUsages ==
    {ProjectUsage(p, x, 3) : p \in Projects, x \in {1, 2}}

Batches == UNION {[1..n -> IncomingUsages] : n \in 0..2}

\* report_cache.add(date, usages) with usages freshly built by the caller
CacheAdd ==
    /\ Len(log) < MaxAdds
    /\ \E date \in Dates, usages \in Batches :
          LET ids == FreshIds(Live(cache), Len(usages))
              r   == cache_add(Allocate(Collect(heap, Live(cache)), ids, usages),
                               cache, date, ids)
          IN  /\ cache' = r.cache
              /\ heap' = Collect(r.heap, Live(r.cache))
              /\ ret' = [NoRet EXCEPT !.op = "add"]
              /\ log' = Append(log, [date |-> date, usages |-> usages])
              /\ UNCHANGED <<parseVars, aggVars, quotas, extVars>>

Init == IdleParse /\ IdleAgg /\ InitStore /\ IdleExt

Next == CacheAdd

Spec == Init /\ [][Next]_vars

----------------------------------------------------------------------------
(* The report cache with a caller that keeps its records: the list handed  *)
(* to add holds records the caller has just built and records it handed    *)
(* to an earlier call, which the cache may still hold                      *)

\* a record as aggregate_by_project builds it, and one that carries a
\* cloud_id and rates
HeldIncoming ==
    {ProjectUsage(p, 1, 3) : p \in Projects}
      \cup {[ProjectUsage(p, 2, 3) EXCEPT !.cloud_id = "c1",
                                          !.cpu_rate = Whole(50),
                                          !.memory_rate = Whole(50)] :
               p \in Projects}

\* an element of the caller's list: a new record, or an object it kept
HeldElements(live) ==
    {[held |-> FALSE, id |-> 0, record |-> u] : u \in HeldIncoming}
      \cup {[held |-> TRUE, id |-> id, record |-> ProjectUsage("", 0, 0)] :
               id \in live}

HeldBatches(live) == UNION {[1..n -> HeldElements(live)] : n \in 1..2}

\* the caller's list as objects: a new record gets a fresh object, a kept
\* one is the object it was
RECURSIVE submit(_, _)
submit(h, batch) ==
    IF batch = <<>> THEN [heap |-> h, ids |-> <<>>]
    ELSE LET n    == Len(batch)
             prev == submit(h, SubSeq(batch, 1, n - 1))
             id   == IF batch[n].held THEN batch[n].id
                     ELSE FreshIds(DOMAIN prev.heap, 1)[1]
         IN  [heap |-> IF batch[n].held THEN prev.heap
                       ELSE Allocate(prev.heap, <<id>>, <<batch[n].record>>),
              ids |-> Append(prev.ids, id)]

\* report_cache.add(date, usages) with such a list
CacheAddHeld ==
    /\ Len(log) < MaxAdds
    /\ \E date \in Dates, batch \in HeldBatches(Live(cache)) :
          \E s \in {submit(Collect(heap, Live(cache)), batch)} :
              \E r \in {cache_add(s.heap, cache, date, s.ids)} :
                  /\ cache' = r.cache
                  /\ heap' = Collect(r.heap, Live(r.cache))
                  /\ ret' = [NoRet EXCEPT !.op = "add"]
                  /\ log' = Append(log,
                                   [date |-> date,
                                    usages |-> [i \in 1..Len(s.ids) |->
                                                   s.heap[s.ids[i]]]])
    /\ UNCHANGED <<parseVars, aggVars, quotas, extVars>>

NextHeld == CacheAddHeld

SpecHeld == Init /\ [][NextHeld]_vars

----------------------------------------------------------------------------
(* Two threads inside MemoryReportCache.add: the scheduler thread          *)
(* (Scheduler._run -> sync_prometheus_usage) and the server's thread       *)
(* (upload_reports).  The class holds no lock; a thread switch can fall    *)
(* between any two attribute or dict accesses.                             *)

\* the ids a thread still refers to
Held(t) ==
    {threads[t].usages[i] : i \in 1..Len(threads[t].usages)}
      \cup {threads[t].existing_dict[i][2] :
               i \in 1..Len(threads[t].existing_dict)}

\* the cache before the two calls: empty, or the outcome of an earlier add
PriorBatches == {<<>>, <<ProjectUsage("p1", 5, 7)>>}

InitConc ==
    /\ IdleParse
    /\ IdleAgg
    /\ IdleExt
    /\ quotas = <<>>
    /\ ret = NoRet
    /\ \E usages \in PriorBatches :
          IF usages = <<>>
          THEN heap = EmptyDict /\ cache = EmptyDict /\ log = <<>>
          ELSE LET ids == FreshIds({}, Len(usages))
                   r   == cache_add(Allocate(EmptyDict, ids, usages),
                                    EmptyDict, "2024-01-01", ids)
               IN  /\ heap = r.heap
                   /\ cache = r.cache
                   /\ log = <<[date |-> "2024-01-01", usages |-> usages]>>

\* sync_prometheus_usage hands add one record at a time; an uploaded report
\* of one project does the same
ConcBatches == {usages \in Batches : Len(usages) = 1}

\* a thread enters report_cache.add(date, usages) with records it has built
AddCall(t) ==
    /\ threads[t].pc = "idle"
    /\ \E date \in Dates, usages \in ConcBatches :
          LET ids == FreshIds(DOMAIN heap, Len(usages))
          IN  /\ heap' = Allocate(heap, ids, usages)
              /\ threads' = [threads EXCEPT ![t] =
                                [IdleThread EXCEPT !.pc = "get",
                                                   !.date = date,
                                                   !.usages = ids,
                                                   !.i = 1]]
              /\ log' = Append(log, [date |-> date, usages |-> usages])
    /\ UNCHANGED <<parseVars, aggVars, groupVars, syncVars, quotas, cache, ret,
                   lateVars>>

\* existing = self._cache.get(date, []); existing_dict = {...}
AddGet(t) ==
    /\ threads[t].pc = "get"
    /\ threads' = [threads EXCEPT
                      ![t].pc = "loop",
                      ![t].existing_dict =
                          existing_dict_of(heap,
                                           DictGet(cache, threads[t].date,
                                                   <<>>))]
    /\ UNCHANGED <<parseVars, aggVars, groupVars, syncVars, storeVars,
                   lateVars>>

\* for usage in usages: if usage.project_name in existing_dict ... else
\* existing_dict[usage.project_name] = usage
AddLoop(t) ==
    /\ threads[t].pc = "loop"
    /\ LET th == threads[t]
       IN  IF th.i > Len(th.usages)
           THEN threads' = [threads EXCEPT ![t].pc = "put"]
           ELSE LET usage == th.usages[th.i]
                    name  == heap[usage].project_name
                IN  IF DictFind(th.existing_dict, name) # 0
                    THEN threads' = [threads EXCEPT ![t].pc = "cpu_load"]
                    ELSE threads' =
                           [threads EXCEPT
                               ![t].existing_dict =
                                   DictPut(th.existing_dict, name, usage),
                               ![t].i = th.i + 1]
    /\ UNCHANGED <<parseVars, aggVars, groupVars, syncVars, storeVars,
                   lateVars>>

\* the stored record the current incoming record is merged into
Target(t) ==
    LET th   == threads[t]
        name == heap[th.usages[th.i]].project_name
    IN  th.existing_dict[DictFind(th.existing_dict, name)][2]

\* the read half of existing_dict[name].cpu_usage += usage.cpu_usage
AddLoadCpu(t) ==
    /\ threads[t].pc = "cpu_load"
    /\ threads' = [threads EXCEPT ![t].pc = "cpu_store",
                                  ![t].tmp = heap[Target(t)].cpu_usage]
    /\ UNCHANGED <<parseVars, aggVars, groupVars, syncVars, storeVars,
                   lateVars>>

\* the write half
AddStoreCpu(t) ==
    /\ threads[t].pc = "cpu_store"
    /\ heap' = [heap EXCEPT ![Target(t)].cpu_usage =
                   threads[t].tmp
                     + heap[threads[t].usages[threads[t].i]].cpu_usage]
    /\ threads' = [threads EXCEPT ![t].pc = "mem_load", ![t].tmp = 0]
    /\ UNCHANGED <<parseVars, aggVars, groupVars, syncVars, quotas, cache, ret,
                   log, lateVars>>

\* the read half of existing_dict[name].memory_usage += usage.memory_usage
AddLoadMem(t) ==
    /\ threads[t].pc = "mem_load"
    /\ threads' = [threads EXCEPT ![t].pc = "mem_store",
                                  ![t].tmp = heap[Target(t)].memory_usage]
    /\ UNCHANGED <<parseVars, aggVars, groupVars, syncVars, storeVars,
                   lateVars>>

AddStoreMem(t) ==
    /\ threads[t].pc = "mem_store"
    /\ heap' = [heap EXCEPT ![Target(t)].memory_usage =
                   threads[t].tmp
                     + heap[threads[t].usages[threads[t].i]].memory_usage]
    /\ threads' = [threads EXCEPT ![t].pc = "loop", ![t].tmp = 0,
                                  ![t].i = threads[t].i + 1]
    /\ UNCHANGED <<parseVars, aggVars, groupVars, syncVars, quotas, cache, ret,
                   log, lateVars>>

\* self._cache[date] = list(existing_dict.values()); the call returns and
\* the thread's locals are gone
AddPut(t) ==
    /\ threads[t].pc = "put"
    /\ LET th     == threads[t]
           stored == [i \in 1..Len(th.existing_dict) |->
                         th.existing_dict[i][2]]
           c      == [d \in DOMAIN cache \cup {th.date} |->
                         IF d = th.date THEN stored ELSE cache[d]]
           others == UNION {Held(u) : u \in ThreadIds \ {t}}
       IN  /\ cache' = c
           /\ heap' = Collect(heap, Live(c) \cup others)
    /\ threads' = [threads EXCEPT ![t] = [IdleThread EXCEPT !.pc = "done"]]
    /\ UNCHANGED <<parseVars, aggVars, groupVars, syncVars, quotas, ret, log,
                   lateVars>>

NextConc ==
    \E t \in ThreadIds :
        \/ AddCall(t)
        \/ AddGet(t)
        \/ AddLoop(t)
        \/ AddLoadCpu(t)
        \/ AddStoreCpu(t)
        \/ AddLoadMem(t)
        \/ AddStoreMem(t)
        \/ AddPut(t)

SpecConc == InitConc /\ [][NextConc]_vars

----------------------------------------------------------------------------
(* One accurate sync of a cluster                                          *)

ClusterName == "c1"

SyncDate == "2024-01-01"

Web(i) == <<"w", "e", "b", "-", i>>

AppPod ==
    <<"a", "p", "p", "-", "7", "f", "9", "c", "5", "d", "-", "x", "2", "j",
      "4", "k">>

DbPod == <<"d", "b", "-", "0">>

\* the lists of namespaces the API server can answer with
NamespaceListings ==
    {NoResponse, Response("ok", <<>>), Response("ok", <<"ns1">>),
     Response("ok", <<"kube-system", "ns1">>),
     Response("ok", <<"ns1", "ns2">>)}

\* the controllers of ns1: a stateful set web and a deployment app at most
StatefulSetListings ==
    {NoResponse, Response("ok", <<>>),
     Response("ok", <<[name |-> <<"w", "e", "b">>, replicas |-> 1]>>)}

DeploymentListings ==
    {Response("ok", <<>>),
     Response("ok", <<[name |-> <<"a", "p", "p">>, replicas |-> 1]>>)}

NamespaceInfos ==
    {[ok |-> FALSE, project_name |-> ""], [ok |-> TRUE, project_name |-> ""],
     [ok |-> TRUE, project_name |-> "p1"]}

\* the pods of ns1 that have a series: none, one or three pods of web, with
\* or without the pod of app
PodSets ==
    {web \o app : web \in {<<>>, <<Web("0")>>,
                           <<Web("0"), Web("1"), Web("2")>>},
                  app \in {<<>>, <<AppPod>>}}

\* a query result: every pod served peaks at 10 cores, or at 1 GiB
QueryResults(value) ==
    {NoResponse, Response("error", <<>>)}
      \cup {Response("success",
                     [i \in 1..Len(pods) |->
                         [pod |-> pods[i], value |-> value]]) :
               pods \in PodSets}

NamespaceQuotas ==
    {NoNamespaceQuota}
      \cup {NamespaceQuota(x, y) : x \in {0, 20}, y \in {0, 2}}

\* ns2 is a healthy namespace of project p1 with one pod and no quota
Ns2Prom ==
    [cpu |-> Response("success", <<[pod |-> DbPod, value |-> 10]>>),
     mem |-> Response("success", <<[pod |-> DbPod, value |-> BytesPerGiB]>>)]

\* the cluster, Prometheus and the namespace quotas before a sync
InitCluster ==
    /\ \E listing \in NamespaceListings, sets \in StatefulSetListings,
          deploys \in DeploymentListings, info \in NamespaceInfos :
          k8s = [namespaces |-> listing,
                 deployments |-> [ns1 |-> deploys, ns2 |-> Response("ok", <<>>)],
                 statefulsets |-> [ns1 |-> sets, ns2 |-> Response("ok", <<>>)],
                 info |-> [ns1 |-> info,
                           ns2 |-> [ok |-> TRUE, project_name |-> "p1"]]]
    /\ \E cpu \in QueryResults(10), mem \in QueryResults(BytesPerGiB) :
          prom = [ns1 |-> [cpu |-> cpu, mem |-> mem], ns2 |-> Ns2Prom]
    /\ \E quota \in NamespaceQuotas :
          ns_quotas = IF quota.exists
                      THEN [key \in {QuotaKey(ClusterName, "ns1")} |-> quota]
                      ELSE EmptyDict
    /\ sync = NoSync

InitSync ==
    /\ IdleParse
    /\ IdleAgg
    /\ InitStore
    /\ IdleGroup
    /\ IdleThreads
    /\ IdleLate
    /\ InitCluster

\* sync_prometheus_config -> sync_prometheus_usage_accurate
SyncAccurate ==
    /\ ~ sync.done
    /\ \E r \in {sync_prometheus_usage_accurate(k8s, prom, ns_quotas, heap,
                                                cache, ClusterName, SyncDate)} :
           /\ sync' = [done |-> TRUE, success |-> r.success,
                       imported |-> r.imported, errors |-> r.errors,
                       usages |-> r.usages,
                       project_usages |-> r.project_usages]
           /\ cache' = r.cache
           /\ heap' = Collect(r.heap, Live(r.cache))
           /\ ret' = [NoRet EXCEPT !.op = "sync", !.ok = r.success]
           /\ log' = log \o [i \in 1..Len(r.project_usages) |->
                               [date |-> SyncDate,
                                usages |->
                                  <<[r.project_usages[i] EXCEPT
                                        !.cpu_rate = NoneVal,
                                        !.memory_rate = NoneVal]>>]]
    /\ UNCHANGED <<parseVars, aggVars, groupVars, threads, quotas, k8s, prom,
                   ns_quotas, lateVars>>

NextSync == SyncAccurate

SpecSync == InitSync /\ [][NextSync]_vars

----------------------------------------------------------------------------
(* One accurate sync from the kubeconfig on: the client is built first     *)

\* a kubeconfig as kubectl writes it (each context a mapping with the keys
\* name and context), one whose contexts are [name, mapping] pairs, one
\* whose context mappings carry a third key, and one without contexts
Kubeconfigs ==
    {[contexts |-> <<<<StrValue, StrValue>>>>, clusters |-> {ClusterName}],
     [contexts |-> <<<<StrValue, MappingValue(ClusterName)>>>>,
      clusters |-> {ClusterName}],
     [contexts |-> <<<<StrValue, StrValue, StrValue>>>>,
      clusters |-> {ClusterName}],
     NoKubeconfig}

\* K8sClient._request without a base_url returns None for every path
without_base_url(k) == [k EXCEPT !.namespaces = NoResponse]

InitKube ==
    /\ IdleParse
    /\ IdleAgg
    /\ InitStore
    /\ IdleGroup
    /\ IdleThreads
    /\ IdleOrder
    /\ IdleSched
    /\ IdleFile
    /\ \E kubeconfig \in Kubeconfigs : k8s_client = NewClient(kubeconfig)
    /\ InitCluster

\* sync_prometheus_usage_accurate from its first line: an exception of the
\* constructor leaves the function before anything is returned or stored
SyncFromKubeconfig ==
    /\ ret.op = "none"
    /\ \E client \in {K8sClient_init(k8s_client.kubeconfig)} :
          /\ k8s_client' = [k8s_client EXCEPT !.built = client.error = NoneStr,
                                              !.error = client.error,
                                              !.base_url = client.base_url]
          /\ IF client.error # NoneStr
             THEN /\ ret' = [NoRet EXCEPT !.op = "sync", !.ok = FALSE]
                  /\ UNCHANGED <<sync, cache, heap, log>>
             ELSE \E r \in {sync_prometheus_usage_accurate(
                                IF client.base_url THEN k8s
                                ELSE without_base_url(k8s),
                                prom, ns_quotas, heap, cache, ClusterName,
                                SyncDate)} :
                     /\ sync' = [done |-> TRUE, success |-> r.success,
                                 imported |-> r.imported,
                                 errors |-> r.errors, usages |-> r.usages,
                                 project_usages |-> r.project_usages]
                     /\ cache' = r.cache
                     /\ heap' = Collect(r.heap, Live(r.cache))
                     /\ ret' = [NoRet EXCEPT !.op = "sync", !.ok = r.success]
                     /\ log' = log \o [i \in 1..Len(r.project_usages) |->
                                         [date |-> SyncDate,
                                          usages |->
                                            <<[r.project_usages[i] EXCEPT
                                                  !.cpu_rate = NoneVal,
                                                  !.memory_rate = NoneVal]>>]]
    /\ UNCHANGED <<parseVars, aggVars, groupVars, threads, quotas, k8s, prom,
                   ns_quotas, orderVars, scheduler, quotas_json>>

NextKube == SyncFromKubeconfig

SpecKube == InitKube /\ [][NextKube]_vars

----------------------------------------------------------------------------
(* Report uploads against a quota store                                    *)

\* quotas.json after at most one create_quota
QuotaStores == {<<>>} \cup {<<quota>> : quota \in QuotaInputs}

\* the reports uploaded: one line per project
UploadDatas == {q \in ProjectDatas :
                   \A i \in 1..Len(q) : Len(q[i].namespaces) = 1}

\* a file named after its date, and one whose name holds no date
UploadFiles ==
    {[filename |-> "Day_report_" \o d, date |-> d, project_data |-> q] :
        d \in Dates, q \in UploadDatas}
      \cup {[filename |-> "report.txt", date |-> NoneStr,
             project_data |-> <<>>]}

InitUpload ==
    /\ IdleParse
    /\ IdleAgg
    /\ IdleExt
    /\ quotas \in QuotaStores
    /\ heap = EmptyDict
    /\ cache = EmptyDict
    /\ ret = NoRet
    /\ log = <<>>

\* upload_reports with one file
UploadReports ==
    /\ Len(log) < MaxAdds
    /\ \E file \in UploadFiles :
          \E r \in {upload_loop(Collect(heap, Live(cache)), cache, quotas,
                                <<file>>)} :
              /\ cache' = r.cache
              /\ heap' = Collect(r.heap, Live(r.cache))
              /\ ret' = [op |-> "upload", ok |-> r.errors = <<>>,
                         usages |-> <<>>, input |-> file.project_data]
              /\ log' = log \o r.calls
    /\ UNCHANGED <<parseVars, aggVars, extVars, quotas>>

NextUpload == UploadReports

SpecUpload == InitUpload /\ [][NextUpload]_vars

----------------------------------------------------------------------------
(* The scheduler: start and stop calls made one after the other, and the   *)
(* loop threads they leave behind.  A loop thread is at "while" (about to  *)
(* test self.running), in "sync" (the two sync calls of one pass), in      *)
(* "sleep" (time.sleep(3600)) or "done" (_run has returned).  What a pass  *)
(* does to the store and the cache is not part of this specification.      *)

MaxCalls == 4

\* the threads whose _run has not returned
LiveLoops(sch) == {i \in DOMAIN sch.loops : sch.loops[i] # "done"}

\* mutant: the flag is not tested, a thread is started on every call
start_always(sch) ==
    [running |-> TRUE, thread |-> Len(sch.loops) + 1,
     loops |-> Append(sch.loops, "while"),
     calls |-> Append(sch.calls, "start")]

\* Scheduler.start
start(sch) ==
    IF sch.running THEN [sch EXCEPT !.calls = Append(@, "start")]
    ELSE [running |-> TRUE, thread |-> Len(sch.loops) + 1,
          loops |-> Append(sch.loops, "while"),
          calls |-> Append(sch.calls, "start")]

\* Scheduler.stop: the flag is cleared; the thread is neither woken nor
\* joined
stop(sch) == [sch EXCEPT !.running = FALSE, !.calls = Append(@, "stop")]

\* one step of Scheduler._run in thread i
run_step(sch, i) ==
    [sch EXCEPT !.loops[i] =
        CASE @ = "while" -> IF sch.running THEN "sync" ELSE "done"
          [] @ = "sync"  -> "sleep"
          [] @ = "sleep" -> "while"
          [] OTHER       -> @]

SchedUnchanged ==
    UNCHANGED <<parseVars, aggVars, storeVars, groupVars, threads, syncVars,
                orderVars, k8s_client, quotas_json>>

SchedulerStart ==
    /\ Len(scheduler.calls) < MaxCalls
    /\ scheduler' = start(scheduler)
    /\ SchedUnchanged

SchedulerStop ==
    /\ Len(scheduler.calls) < MaxCalls
    /\ scheduler' = stop(scheduler)
    /\ SchedUnchanged

SchedulerRun ==
    \E i \in LiveLoops(scheduler) :
        /\ scheduler' = run_step(scheduler, i)
        /\ SchedUnchanged

InitSched == IdleParse /\ IdleAgg /\ InitStore /\ IdleExt

NextSched == SchedulerStart \/ SchedulerStop \/ SchedulerRun

SpecSched == InitSched /\ [][NextSched]_vars

----------------------------------------------------------------------------
(* The quota routes on the keyed quota file                                *)

QuotaUnchanged ==
    UNCHANGED <<parseVars, aggVars, quotas, heap, cache, log, groupVars,
                threads, syncVars, orderVars, scheduler, k8s_client>>

\* create_quota -> QuotaManager.add_quota -> Storage.add_quota; the route
\* answers 400 when ok is FALSE
CreateQuota ==
    \E quota \in QuotaInputs :
        \E r \in {QuotaManager_add_quota(quotas_json, quota.cloud_id,
                                         quota.project_name, quota.cpu_quota,
                                         quota.memory_quota)} :
            /\ quotas_json' = r.quotas
            /\ ret' = [NoRet EXCEPT !.op = "create_quota", !.ok = r.ok]
            /\ QuotaUnchanged

\* update_quota -> QuotaManager.update_quota -> Storage.update_quota; the
\* route answers 404 when ok is FALSE
PutQuota ==
    \E cloud_id \in CloudIds, update \in QuotaUpdates :
        \E r \in {QuotaManager_update_quota(quotas_json, cloud_id, update)} :
            /\ quotas_json' = r.quotas
            /\ ret' = [NoRet EXCEPT !.op = "update_quota", !.ok = r.ok]
            /\ QuotaUnchanged

\* delete_quota -> QuotaManager.delete_quota -> Storage.delete_quota; the
\* route answers 404 when ok is FALSE
RemoveQuota ==
    \E cloud_id \in CloudIds :
        \E r \in {QuotaManager_delete_quota(quotas_json, cloud_id)} :
            /\ quotas_json' = r.quotas
            /\ ret' = [NoRet EXCEPT !.op = "delete_quota", !.ok = r.ok]
            /\ QuotaUnchanged

NextQuota == CreateQuota \/ PutQuota \/ RemoveQuota

SpecQuota == Init /\ [][NextQuota]_vars

----------------------------------------------------------------------------
(* The quantity grammar the claims speak of, stated without the parsers    *)

\* a non-negative integer numeral
IsNat(s) == s # <<>> /\ AllDigits(s)

\* an optionally signed decimal numeral: digits with at most one point
IsDecimal(s) ==
    LET u == IF s # <<>> /\ s[1] = "-" THEN Tail(s) ELSE s
    IN  /\ \A i \in 1..Len(u) : u[i] \in Digits \cup {"."}
        /\ Cardinality({i \in 1..Len(u) : u[i] = "."}) <= 1
        /\ \E i \in 1..Len(u) : u[i] \in Digits

\* the value of a decimal numeral
DecimalValue(s) ==
    LET neg == s[1] = "-"
        u   == IF neg THEN Tail(s) ELSE s
        ds  == SelectSeq(u, LAMBDA c : c # ".")
        fl  == IF \E i \in 1..Len(u) : u[i] = "."
               THEN Len(u) - (CHOOSE i \in 1..Len(u) : u[i] = ".")
               ELSE 0
    IN  Fin((IF neg THEN -1 ELSE 1) * DigitsVal(ds), Pow10(fl), 0)

Parsers == {"cpu", "memory", "storage", "quantity"}

SuffixTable(f) ==
    CASE f = "cpu" -> {<<>>, <<"m">>}
      [] f = "quantity" ->
           {<<>>, <<"k">>, <<"m">>, <<"K", "i">>, <<"M", "i">>, <<"G", "i">>,
            <<"T", "i">>, <<"K">>, <<"M">>, <<"G">>}
      [] OTHER ->
           {<<>>, <<"K", "i">>, <<"M", "i">>, <<"G", "i">>, <<"T", "i">>,
            <<"K">>, <<"M">>, <<"G">>}

\* None, empty, not a numeral, or a numeral with a suffix the mode lacks
Malformed(f, t) ==
    \/ t = NoneTok
    \/ ~ \E x \in SuffixTable(f) :
            EndsWith(t, x) /\ IsDecimal(DropLast(t, Len(x)))

----------------------------------------------------------------------------
(* Claims about the quantity parsers (checked under SpecParse)             *)

\* C1: each of the four parsers returns a number and never raises, and for
\* an empty, malformed or unknown-suffix token the number returned is zero.
C1_TotalZeroOnMalformed ==
    \A f \in Parsers :
        parsed[f] # Unset =>
            /\ parsed[f].k = "fin"
            /\ Malformed(f, token) => parsed[f] = Zero

\* C7: in Count mode "<n>Ki", "<n>Mi", "<n>Gi", "<n>Ti" give n * 1024,
\* n * 1024^2, n * 1024^3, n * 1024^4 for every non-negative integer n.
C7_BinaryCountMultipliers ==
    \A x \in {<<"K", "i">>, <<"M", "i">>, <<"G", "i">>, <<"T", "i">>} :
        (/\ parsed.quantity # Unset
         /\ EndsWith(token, x)
         /\ IsNat(DropLast(token, 2)))
        => LET n == Whole(DigitsVal(DropLast(token, 2)))
               k == FMul(n, 1024)
           IN  parsed.quantity =
                   CASE x = <<"K", "i">> -> k
                     [] x = <<"M", "i">> -> FMul(k, 1024)
                     [] x = <<"G", "i">> -> FMul(FMul(k, 1024), 1024)
                     [] x = <<"T", "i">> -> FMul(FMul(FMul(k, 1024), 1024), 1024)

\* C8: in Count mode k, K, M, G multiply by 10^3, 10^3, 10^6, 10^9 and m
\* divides by 10^3, truncated to an integer: "<n>m" gives floor(n / 1000),
\* which is 0 for n < 1000.
C8_DecimalCountMultipliers ==
    \A x \in {<<"k">>, <<"K">>, <<"M">>, <<"G">>, <<"m">>} :
        (/\ parsed.quantity # Unset
         /\ EndsWith(token, x)
         /\ IsNat(DropLast(token, 1)))
        => LET n == DigitsVal(DropLast(token, 1))
               t == FMul(Whole(n), 1000)
           IN  parsed.quantity =
                   CASE x = <<"k">> -> t
                     [] x = <<"K">> -> t
                     [] x = <<"M">> -> FMul(t, 1000)
                     [] x = <<"G">> -> FMul(FMul(t, 1000), 1000)
                     [] x = <<"m">> -> Whole(n \div 1000)

C8_Witness ==
    \/ /\ token = <<"2", "k">>
       /\ parsed.quantity = Whole(2000)
    \/ /\ token = <<"5", "m">>
       /\ parsed.quantity = Zero
    \/ /\ token = <<"2", "5", "0", "0", "m">>
       /\ parsed.quantity = Whole(2)

\* C9: in Memory mode "<n><suffix>" is converted to GiB by the table
\* Ki: n/1024^2, Mi: n/1024, Gi: n, Ti: n*1024, K: n/1000/1024, M: n/1000,
\* G: n, no suffix: n/2^30.
C9_MemoryTable ==
    \A x \in SuffixTable("memory") :
        (/\ parsed.memory # Unset
         /\ EndsWith(token, x)
         /\ IsDecimal(DropLast(token, Len(x))))
        => LET n == DecimalValue(DropLast(token, Len(x)))
           IN  parsed.memory =
                   CASE x = <<"K", "i">> -> FDiv(n, 1048576)
                     [] x = <<"M", "i">> -> FDiv(n, 1024)
                     [] x = <<"G", "i">> -> n
                     [] x = <<"T", "i">> -> FMul(n, 1024)
                     [] x = <<"K">> -> FDiv(n, 1024000)
                     [] x = <<"M">> -> FDiv(n, 1000)
                     [] x = <<"G">> -> n
                     [] x = <<>> -> FDiv(n, 1073741824)

C9_Witness ==
    /\ token \in {<<"1", "G", "i">>, <<"1", "0", "2", "4", "M", "i">>,
                  <<"1", "0", "4", "8", "5", "7", "6", "K", "i">>,
                  <<"1", "G">>,
                  <<"1", "0", "7", "3", "7", "4", "1", "8", "2", "4">>,
                  <<"1", "0", "2", "4", "K">>}
    /\ parsed.memory \in {Whole(1), Fin(1, 1000, 0)}

\* C10: in CPU mode "<n>m" gives n / 1000 cores and the bare "<n>" gives n.
C10_CpuMillicores ==
    /\ (/\ parsed.cpu # Unset
        /\ EndsWith(token, <<"m">>)
        /\ IsDecimal(DropLast(token, 1)))
       => parsed.cpu = FDiv(DecimalValue(DropLast(token, 1)), 1000)
    /\ (parsed.cpu # Unset /\ IsDecimal(token))
       => parsed.cpu = DecimalValue(token)

C10_Witness ==
    \/ /\ token = <<"1", "5", "0", "0", "m">>
       /\ parsed.cpu = Fin(3, 2, 0)
    \/ /\ token = <<"2">>
       /\ parsed.cpu = Whole(2)

\* C13: _parse_storage and _parse_memory return the same value for every
\* token: valid, malformed, empty or None.
C13_StorageAsMemory ==
    (parsed.memory # Unset /\ parsed.storage # Unset)
        => parsed.storage = parsed.memory

C13_Witness ==
    /\ parsed.memory # Unset
    /\ parsed.storage # Unset
    /\ \/ /\ token = <<"2", "T", "i">>
          /\ parsed.storage = Whole(2048)
       \/ /\ token = <<"1", "x">>
          /\ parsed.storage = Zero
       \/ /\ token = NoneTok
          /\ parsed.storage = Zero

----------------------------------------------------------------------------
(* Claims about the workload grouper (checked under SpecGroup)             *)

\* the positions of the '-' characters of a name
Dashes(name) == {i \in 1..Len(name) : name[i] = "-"}

LastDash(name) == CHOOSE i \in Dashes(name) : \A j \in Dashes(name) : j <= i

\* the name ends in '-' followed by one or more digits and nothing else
HasOrdinalSuffix(name) ==
    /\ Dashes(name) # {}
    /\ LastDash(name) < Len(name)
    /\ \A i \in (LastDash(name) + 1)..Len(name) : name[i] \in Digits

C27_NonEmptyKey ==
    (workload # NoneTok /\ pod_name # <<>>) =>
        /\ workload # <<>>
        /\ \/ workload = pod_name
           \/ /\ HasOrdinalSuffix(pod_name)
              /\ workload = SubSeq(pod_name, 1, LastDash(pod_name) - 1)
        /\ Dashes(pod_name) = {} => workload = pod_name

----------------------------------------------------------------------------
(* Claims about the replica-aware aggregator (checked under SpecAgg)       *)

RECURSIVE IndexSum(_, _)
IndexSum(q, I) ==
    IF I = {} THEN 0
    ELSE LET i == CHOOSE j \in I : TRUE
         IN  q[i] + IndexSum(q, I \ {i})

\* the sum of the k highest entries of q: the largest sum any k entries have
TopSum(q, k) ==
    LET sums == {IndexSum(q, I) :
                    I \in {J \in SUBSET (1..Len(q)) :
                              Cardinality(J) = Min(k, Len(q))}}
    IN  CHOOSE m \in sums : \A x \in sums : x <= m

Known(w) == w \in DOMAIN workload_replicas /\ workload_replicas[w] > 0

\* C2: for a workload with a known positive replica count e,
\* allowed = floor(e * 1.5); with more than allowed pods observed its CPU
\* contribution is the sum of exactly the allowed highest CPU peaks, and
\* with at most allowed pods all peaks are summed.
C2_TruncateToAllowed ==
    agg.done =>
        \A w \in DOMAIN workload_pods :
            Known(w) =>
                LET cpu     == workload_pods[w].cpu
                    allowed == (workload_replicas[w] * 3) \div 2
                IN  agg.added[w].cpu =
                        IF Len(cpu) > allowed THEN TopSum(cpu, allowed)
                        ELSE SeqSum(cpu)

C2_Witness ==
    /\ agg.done
    /\ "web" \in DOMAIN workload_pods
    /\ workload_pods["web"].cpu = <<10, 9, 10, 9, 10>>
    /\ Known("web")
    /\ workload_replicas["web"] = 2
    /\ agg.added["web"].cpu = 30

\* C3: a workload with no entry in the replica expectations, or with an
\* expected count of 0, is not truncated: all of its CPU peaks and all of
\* its Memory peaks are summed, for any number of observed pods.
C3_NoTruncationWhenUnknown ==
    agg.done =>
        \A w \in DOMAIN workload_pods :
            ~ Known(w) =>
                /\ agg.added[w].cpu = SeqSum(workload_pods[w].cpu)
                /\ agg.added[w].mem = SeqSum(workload_pods[w].mem)

C3_Witness ==
    /\ agg.done
    /\ "web" \in DOMAIN workload_pods
    /\ Len(workload_pods["web"].cpu) = 4
    /\ "web" \in DOMAIN workload_replicas
    /\ workload_replicas["web"] = 0
    /\ agg.added["web"].cpu = SeqSum(workload_pods["web"].cpu)
    /\ agg.added["web"].cpu >= 36

C3_WitnessMissing ==
    /\ agg.done
    /\ "web" \in DOMAIN workload_pods
    /\ Len(workload_pods["web"].cpu) = 4
    /\ "web" \notin DOMAIN workload_replicas
    /\ agg.added["web"].mem = SeqSum(workload_pods["web"].mem)

\* C14: a namespace with no pod samples (no workload groups) aggregates to
\* a CPU total of 0 and a Memory total of 0 and raises no error, whatever
\* the replica expectations hold.
C14_EmptyNamespaceIsZero ==
    (agg.done /\ DOMAIN workload_pods = {}) =>
        /\ agg.error = "none"
        /\ agg.total_cpu = 0
        /\ agg.total_mem = 0

C14_Witness ==
    /\ agg.done
    /\ DOMAIN workload_pods = {}
    /\ DOMAIN workload_replicas = Workloads
    /\ workload_replicas["web"] = 2
    /\ agg.error = "none"
    /\ agg.total_cpu = 0

\* C19: CPU and Memory are ranked and cut independently: when a workload
\* is truncated to K peaks, the CPU values kept are its K largest CPU peaks
\* and the Memory values kept are its K largest Memory peaks, also when
\* these belong to different pods.
C19_IndependentTruncation ==
    agg.done =>
        \A w \in DOMAIN workload_pods :
            LET cpu == workload_pods[w].cpu
                mem == workload_pods[w].mem
                K   == (workload_replicas[w] * 3) \div 2
            IN  (Known(w) /\ Len(cpu) > K) =>
                    /\ agg.added[w].cpu = TopSum(cpu, K)
                    /\ agg.added[w].mem = TopSum(mem, K)

\* three pods are kept of four; the pod with the lowest CPU peak has one of
\* the three highest Memory peaks
C19_Witness ==
    /\ agg.done
    /\ "web" \in DOMAIN workload_pods
    /\ Known("web")
    /\ workload_replicas["web"] = 2
    /\ workload_pods["web"].cpu = <<10, 10, 10, 9>>
    /\ workload_pods["web"].mem = <<0, 10, 10, 10>>
    /\ agg.added["web"] = [cpu |-> 30, mem |-> 30]

\* C26: with non-negative peaks and replica expectations that are absent,
\* 0 or at least 1, what a workload adds to a total is at most the sum of
\* all its observed peaks and at least its highest observed peak, for CPU
\* and for Memory; so a total never exceeds the sum of all peaks of the
\* namespace and a workload with a pod keeps at least one peak.
C26_ContributionBounds ==
    agg.done =>
        /\ \A w \in DOMAIN workload_pods :
               /\ agg.added[w].cpu <= SeqSum(workload_pods[w].cpu)
               /\ agg.added[w].cpu >= SeqMax(workload_pods[w].cpu)
               /\ agg.added[w].mem <= SeqSum(workload_pods[w].mem)
               /\ agg.added[w].mem >= SeqMax(workload_pods[w].mem)
        /\ agg.total_cpu
             <= SumOver([w \in DOMAIN workload_pods |->
                            [cpu |-> SeqSum(workload_pods[w].cpu)]],
                        DOMAIN workload_pods, "cpu")
        /\ agg.total_mem
             <= SumOver([w \in DOMAIN workload_pods |->
                            [mem |-> SeqSum(workload_pods[w].mem)]],
                        DOMAIN workload_pods, "mem")

\* five pods are observed where one is expected: one peak is kept, the
\* highest
C26_Witness ==
    /\ agg.done
    /\ DOMAIN workload_pods = {"web"}
    /\ workload_pods["web"].cpu = <<9, 9, 10, 9, 9>>
    /\ workload_pods["web"].mem = <<0, 10, 0, 0, 10>>
    /\ Known("web")
    /\ workload_replicas["web"] = 1
    /\ agg.added["web"] = [cpu |-> 10, mem |-> 10]
    /\ agg.total_cpu = 10

----------------------------------------------------------------------------
(* Claims about the order of the samples (checked under SpecOrder)         *)

\* the orders n things can come in
Perms(n) == {f \in [1..n -> 1..n] : \A i, j \in 1..n : i # j => f[i] # f[j]}

\* the same pods of a workload in another order
PodOrders(data) ==
    {[cpu |-> [i \in 1..Len(data.cpu) |-> data.cpu[f[i]]],
      mem |-> [i \in 1..Len(data.mem) |-> data.mem[f[i]]]] :
        f \in Perms(Len(data.cpu))}

\* the same workloads with the same pods, in every order of the workloads
\* and of the pods of each
Reorderings(items) ==
    UNION {{q \in [1..Len(items) ->
                     UNION {{<<items[i][1], g>> : g \in PodOrders(items[i][2])} :
                              i \in 1..Len(items)}] :
               \A i \in 1..Len(items) :
                   /\ q[i][1] = items[f[i]][1]
                   /\ q[i][2] \in PodOrders(items[f[i]][2])} :
             f \in Perms(Len(items))}

\* C22: the totals do not depend on the order of the input: the same pods
\* per workload and the same replica expectations give the same CPU total
\* and the same Memory total in every order of the pods within a workload
\* and every order of the workloads, also with equal peaks at the cut.
C22_OrderIndependent ==
    totals64.done =>
        \A items \in Reorderings(peak_items) :
            /\ aggregate_items(items, workload_replicas).total_cpu
                  = totals64.total_cpu
            /\ aggregate_items(items, workload_replicas).total_mem
                  = totals64.total_mem

----------------------------------------------------------------------------
(* Claims about the accurate sync (checked under SpecSync)                 *)

\* the deployments and stateful sets the API server lists for a namespace
Controllers(namespace) ==
    {k8s.deployments[namespace].items[i] :
        i \in 1..Len(k8s.deployments[namespace].items)}
      \cup {k8s.statefulsets[namespace].items[i] :
               i \in 1..Len(k8s.statefulsets[namespace].items)}

\* the pod carries the controller's name followed by '-' and a suffix
BelongsTo(pod, controller) ==
    /\ Len(pod) > Len(controller.name) + 1
    /\ SubSeq(pod, 1, Len(controller.name) + 1) = controller.name \o <<"-">>

\* C15: the replica expectations are keyed by workload key: the count of a
\* deployment or stateful set is stored under the key that
\* _extract_workload_name derives from its pods, so the sync finds it and
\* cuts a workload observed with more than floor(1.5 * replicas) pods down
\* to that many peaks.
C15_ReplicasKeyedByWorkload ==
    sync.done =>
        \A i \in 1..Len(sync.usages) :
            LET u == sync.usages[i]
            IN  \A w \in DOMAIN u.workload_pods,
                   c \in Controllers(u.namespace) :
                    (\A j \in 1..Len(u.workload_pods[w].pods) :
                         BelongsTo(u.workload_pods[w].pods[j], c))
                    => LET cpu     == u.workload_pods[w].cpu
                           allowed == (c.replicas * 3) \div 2
                       IN  /\ w \in DOMAIN u.workload_replicas
                           /\ u.workload_replicas[w] = c.replicas
                           /\ Len(cpu) > allowed
                                => u.added[w].cpu = TopSum(cpu, allowed)

\* a query for the namespace failed: no response (connection error, HTTP
\* error) or a response whose status is not "success"
QueryFailed(result) == ~ result.ok \/ result.status # "success"

BackendFailed(namespace) ==
    QueryFailed(prom[namespace].cpu) \/ QueryFailed(prom[namespace].mem)

\* C17: a failing metrics query propagates as a failure of the accurate
\* sync: it is not read as an empty pod-sample set, and the sync does not
\* return a successful SyncResult that records zero usage for the namespace.
C17_BackendFailurePropagates ==
    sync.done =>
        \A i \in 1..Len(sync.usages) :
            BackendFailed(sync.usages[i].namespace) => ~ sync.success

\* the pods a successful query result holds a series for
PodsIn(result) ==
    IF QueryFailed(result) THEN {}
    ELSE {result.items[i].pod : i \in 1..Len(result.items)}

\* the value the result holds for a pod, 0 when it holds none
ValueIn(result, pod) ==
    IF pod \in PodsIn(result)
    THEN (CHOOSE item \in {result.items[i] : i \in 1..Len(result.items)} :
              item.pod = pod).value
    ELSE 0

\* how often a pod occurs in the groups of a usage
Occurrences(u, pod) ==
    {<<w, j>> \in UNION {{<<v, n>> : n \in 1..Len(u.workload_pods[v].pods)} :
                            v \in DOMAIN u.workload_pods} :
        u.workload_pods[w].pods[j] = pod}

\* C18: every pod with a CPU series or a Memory series yields one sample in
\* its workload group: a pod with a Memory series only is grouped with a
\* CPU peak of 0 and its Memory peak counts in the namespace total, as a
\* pod with a CPU series only is counted with a Memory peak of 0.
C18_EitherSeriesYieldsSample ==
    sync.done =>
        \A i \in 1..Len(sync.usages) :
            LET u   == sync.usages[i]
                cpu == prom[u.namespace].cpu
                mem == prom[u.namespace].mem
            IN  \A pod \in PodsIn(cpu) \cup PodsIn(mem) :
                    /\ Cardinality(Occurrences(u, pod)) = 1
                    /\ \A o \in Occurrences(u, pod) :
                           /\ u.workload_pods[o[1]].cpu[o[2]]
                                = ValueIn(cpu, pod)
                           /\ u.workload_pods[o[1]].mem[o[2]] * BytesPerGiB
                                = ValueIn(mem, pod)
                           /\ u.memory_usage
                                >= u.workload_pods[o[1]].mem[o[2]]

\* the namespaces the API server lists, without the kube- ones
Listed ==
    SelectSeq(k8s.namespaces.items,
              LAMBDA name : name \notin {"", "kube-system", "kube-public"})

\* neither query holds a series for a pod of the namespace
NoPods(namespace) ==
    PodsIn(prom[namespace].cpu) \cup PodsIn(prom[namespace].mem) = {}

\* C21: one degraded namespace never halts the others: the usages hold
\* exactly one record per listed namespace, in listing order; a namespace
\* with no pods has usage 0 and 0, one whose controllers cannot be listed
\* has an empty replica mapping, one without a project label has the
\* project name "", and the namespace after it is processed as usual.
C21_OneRecordPerNamespace ==
    (sync.done /\ Listed # <<>>) =>
        /\ Len(sync.usages) = Len(Listed)
        /\ \A i \in 1..Len(Listed) :
               LET u  == sync.usages[i]
                   ns == Listed[i]
               IN  /\ u.namespace = ns
                   /\ NoPods(ns) => u.cpu_usage = 0 /\ u.memory_usage = 0
                   /\ Controllers(ns) = {} => DOMAIN u.workload_replicas = {}
                   /\ (~ k8s.info[ns].ok \/ k8s.info[ns].project_name = "")
                         => u.project_name = ""
                   /\ ns = "ns2" =>
                         /\ u.project_name = "p1"
                         /\ u.cpu_usage = 10
                         /\ u.memory_usage = 1

\* ns1 has no pods, its stateful sets cannot be listed and its namespace
\* object cannot be read; ns2 after it is processed
C21_Witness ==
    /\ sync.done
    /\ Listed = <<"ns1", "ns2">>
    /\ NoPods("ns1")
    /\ ~ k8s.statefulsets["ns1"].ok
    /\ ~ k8s.info["ns1"].ok
    /\ Len(sync.usages) = 2
    /\ sync.usages[1].cpu_usage = 0
    /\ sync.usages[2].cpu_usage = 10

----------------------------------------------------------------------------
(* Claims about the report cache (checked under Spec)                      *)

\* the ids stored for a date and a project
StoredIds(d, p) ==
    IF d \in DOMAIN cache
    THEN {cache[d][i] : i \in {j \in 1..Len(cache[d]) :
                                  heap[cache[d][j]].project_name = p}}
    ELSE {}

RECURSIVE SetSum(_, _, _)
SetSum(h, ids, field) ==
    IF ids = {} THEN 0
    ELSE LET x == CHOOSE y \in ids : TRUE
         IN  h[x][field] + SetSum(h, ids \ {x}, field)

\* what the add calls made so far contributed to a date and a project
RECURSIVE BatchSum(_, _, _)
BatchSum(usages, p, field) ==
    IF usages = <<>> THEN 0
    ELSE (IF Head(usages).project_name = p THEN Head(usages)[field] ELSE 0)
           + BatchSum(Tail(usages), p, field)

RECURSIVE Contributed(_, _, _, _)
Contributed(calls, d, p, field) ==
    IF calls = <<>> THEN 0
    ELSE (IF Head(calls).date = d
          THEN BatchSum(Head(calls).usages, p, field) ELSE 0)
           + Contributed(Tail(calls), d, p, field)

Mentioned(calls, d, p) ==
    \E i \in 1..Len(calls) :
        /\ calls[i].date = d
        /\ \E j \in 1..Len(calls[i].usages) :
               calls[i].usages[j].project_name = p

\* C4: add is an additive merge: the cpu_usage and memory_usage stored for a
\* date and a project are the sums of the values every add call brought for
\* them (an existing record is increased, not replaced), and a project is
\* stored exactly when some call brought it; two equal calls store twice
\* the values.
C4_AdditiveMerge ==
    \A d \in Dates, p \in Projects :
        /\ SetSum(heap, StoredIds(d, p), "cpu_usage")
             = Contributed(log, d, p, "cpu_usage")
        /\ SetSum(heap, StoredIds(d, p), "memory_usage")
             = Contributed(log, d, p, "memory_usage")
        /\ (StoredIds(d, p) # {}) <=> Mentioned(log, d, p)

C4_Witness ==
    /\ Len(log) = 2
    /\ log[1] = log[2]
    /\ log[1].date = "2024-01-01"
    /\ log[1].usages = <<ProjectUsage("p1", 2, 3)>>
    /\ Cardinality(StoredIds("2024-01-01", "p1")) = 1
    /\ \A id \in StoredIds("2024-01-01", "p1") :
           heap[id].cpu_usage = 4 /\ heap[id].memory_usage = 6

----------------------------------------------------------------------------
(* Claims about the report cache with a caller that keeps its records      *)
(* (checked under SpecHeld)                                                *)

\* C23: after any sequence of add calls from the empty cache, the list of
\* a date holds at most one record per project name, also after a call
\* whose list names a project twice: the two are summed into one record.
C23_OneRecordPerProject ==
    \A d \in DOMAIN cache :
        \A i, j \in 1..Len(cache[d]) :
            i # j => heap[cache[d][i]].project_name
                       # heap[cache[d][j]].project_name

C23_Witness ==
    /\ Len(log) = 1
    /\ Len(log[1].usages) = 2
    /\ log[1].usages[1] = ProjectUsage("p1", 1, 3)
    /\ log[1].usages[2].project_name = "p1"
    /\ log[1].usages[2].cpu_usage = 2
    /\ Len(cache[log[1].date]) = 1
    /\ heap[cache[log[1].date][1]].cpu_usage = 3
    /\ heap[cache[log[1].date][1]].memory_usage = 6

\* the records stored under a date, in list order
Stored(h, c, d) == [i \in 1..Len(c[d]) |-> h[c[d][i]]]

\* C24: add(date, usages) leaves the records stored under every other date
\* as they were, whatever calls came before, also when the caller hands in
\* an object it handed in before, under this or another date.
C24_OtherDatesUnchanged ==
    [][Len(log') = Len(log) + 1 =>
           \A d \in DOMAIN cache :
               d # log'[Len(log')].date =>
                   /\ d \in DOMAIN cache'
                   /\ Stored(heap', cache', d) = Stored(heap, cache, d)]_vars

\* the first record that was handed in for a date and a project
FirstMention(calls, d, p) ==
    LET i == CHOOSE k \in 1..Len(calls) :
                 /\ calls[k].date = d
                 /\ BatchSum(calls[k].usages, p, "memory_usage") > 0
                 /\ \A m \in 1..(k - 1) :
                        calls[m].date = d =>
                            BatchSum(calls[m].usages, p, "memory_usage") = 0
        j == CHOOSE k \in 1..Len(calls[i].usages) :
                 /\ calls[i].usages[k].project_name = p
                 /\ \A m \in 1..(k - 1) :
                        calls[i].usages[m].project_name # p
    IN  calls[i].usages[j]

\* C25: a merge changes only cpu_usage and memory_usage: the cloud_id, the
\* cpu_rate and the memory_rate of the record stored for a date and a
\* project are those of the first record handed in for them, whatever the
\* later ones carry, and a record first stored without a cloud_id is not
\* in get_report of that date.
C25_MergeKeepsIdentity ==
    \A d \in Dates, p \in Projects :
        Mentioned(log, d, p) =>
            /\ \A id \in StoredIds(d, p) :
                   /\ heap[id].cloud_id = FirstMention(log, d, p).cloud_id
                   /\ heap[id].cpu_rate = FirstMention(log, d, p).cpu_rate
                   /\ heap[id].memory_rate
                        = FirstMention(log, d, p).memory_rate
            /\ FirstMention(log, d, p).cloud_id = NoneStr =>
                   \A i \in 1..Len(get_report(heap, cache, d)) :
                       get_report(heap, cache, d)[i].project_name # p

C25_Witness ==
    /\ Len(log) = 2
    /\ log[1] = [date |-> "2024-01-01",
                 usages |-> <<ProjectUsage("p1", 1, 3)>>]
    /\ log[2].date = "2024-01-01"
    /\ Len(log[2].usages) = 1
    /\ log[2].usages[1].project_name = "p1"
    /\ log[2].usages[1].cloud_id = "c1"
    /\ Stored(heap, cache, "2024-01-01") = <<ProjectUsage("p1", 3, 6)>>
    /\ get_report(heap, cache, "2024-01-01") = <<>>

----------------------------------------------------------------------------
(* Claims about concurrent merges (checked under SpecConc)                 *)

AllDone == \A t \in ThreadIds : threads[t].pc = "done"

\* C12: two add calls that run concurrently are serialized: once both have
\* returned, the usage stored for every date and project is the earlier
\* total plus both contributions, and no record that a call brought is
\* missing from the store.
C12_ConcurrentAddsSerialized ==
    AllDone =>
        \A d \in Dates, p \in Projects :
            /\ SetSum(heap, StoredIds(d, p), "cpu_usage")
                 = Contributed(log, d, p, "cpu_usage")
            /\ SetSum(heap, StoredIds(d, p), "memory_usage")
                 = Contributed(log, d, p, "memory_usage")
            /\ (StoredIds(d, p) # {}) <=> Mentioned(log, d, p)

----------------------------------------------------------------------------
(* Claims about the rate calculator (checked under SpecCalc)               *)

QuotasOf(p) == {quotas[i] : i \in {j \in 1..Len(quotas) :
                                      quotas[j].project_name = p}}

\* the rate rule of the specification
RateRule(usage, cap) ==
    IF cap > 0
    THEN IF usage >= cap THEN Whole(100) ELSE Fin(usage * 100, cap, 0)
    ELSE Zero

Returned == {heap[ret.usages[i]] : i \in 1..Len(ret.usages)}

\* C5: for a project whose quota exists, calculate_rates sets each rate
\* per dimension: min(usage / cap * 100, 100.0) when cap > 0 and 0.0 when
\* cap = 0.
C5_RateRule ==
    ret.op = "process_report" =>
        \A u \in Returned :
            QuotasOf(u.project_name) # {} =>
                \E q \in QuotasOf(u.project_name) :
                    /\ u.cpu_rate = RateRule(u.cpu_usage, q.cpu_quota)
                    /\ u.memory_rate = RateRule(u.memory_usage, q.memory_quota)

C5_Witness ==
    /\ ret.op = "process_report"
    /\ \E u \in Returned, v \in Returned :
          /\ Cardinality(QuotasOf(u.project_name)) = 1
          /\ Cardinality(QuotasOf(v.project_name)) = 1
          /\ \E q \in QuotasOf(u.project_name) :
                q.cpu_quota = 100 /\ q.memory_quota = 0
          /\ u.cpu_usage = 150 /\ u.cpu_rate = Whole(100)
          /\ u.memory_usage > 0 /\ u.memory_rate = Zero
          /\ \E q \in QuotasOf(v.project_name) : q.cpu_quota = 100
          /\ v.cpu_usage = 50 /\ v.cpu_rate = Whole(50)

\* C6: a project without a quota gets absent (None) rates, never 0.0,
\* unlike a quota with a zero cap, which gives 0.0; the call raises no
\* error and still rates every other project of the same call.
C6_AbsentWithoutQuota ==
    ret.op = "process_report" =>
        /\ ret.ok
        /\ Len(ret.usages) = Len(ret.input)
        /\ \A i \in 1..Len(ret.usages) :
              LET u == heap[ret.usages[i]]
              IN  /\ u.project_name = ret.input[i].project_name
                  /\ IF QuotasOf(u.project_name) = {}
                     THEN /\ u.cpu_rate = NoneVal
                          /\ u.memory_rate = NoneVal
                          /\ u.cpu_rate # Zero
                     ELSE /\ u.cpu_rate # NoneVal
                          /\ u.memory_rate # NoneVal

C6_Witness ==
    /\ ret.op = "process_report"
    /\ Len(ret.usages) = 2
    /\ LET u == heap[ret.usages[1]]
           v == heap[ret.usages[2]]
       IN  /\ QuotasOf(u.project_name) = {}
           /\ u.cpu_rate = NoneVal /\ u.memory_rate = NoneVal
           /\ \E q \in QuotasOf(v.project_name) : q.cpu_quota = 0
           /\ v.cpu_rate = Zero

----------------------------------------------------------------------------
(* Claims about the upload pipeline (checked under SpecUpload)             *)

\* C16: the merge comes before the rate join: after any sequence of uploads
\* the cpu_rate and memory_rate of every record reported for a date and a
\* project are the rate rule applied to the record's accumulated cpu_usage
\* and memory_usage against the project's quota.
C16_RatesOfAccumulatedUsage ==
    \A d \in DOMAIN cache :
        LET reported == get_report(heap, cache, d)
        IN  \A i \in 1..Len(reported) :
                LET u == reported[i]
                    q == get_quota_by_project(quotas, u.project_name)
                IN  /\ q # NoQuota
                    /\ u.cpu_rate = RateRule(u.cpu_usage, q.cpu_quota)
                    /\ u.memory_rate = RateRule(u.memory_usage, q.memory_quota)

----------------------------------------------------------------------------
(* Claims about the rates of the accurate sync (checked under SpecSync)    *)

\* C20: the accurate sync applies the rate rule of the rate calculator: for
\* a namespace whose namespace quota exists, cpu_rate (memory_rate) is
\* min(usage / limit * 100, 100) when the limit is > 0 and 0.0 when the
\* limit is 0; a rate is absent only when the namespace has no quota.
C20_AccurateSyncRateRule ==
    sync.done =>
        \A i \in 1..Len(sync.usages) :
            LET u   == sync.usages[i]
                pu  == sync.project_usages[i]
                key == QuotaKey(ClusterName, u.namespace)
            IN  IF key \in DOMAIN ns_quotas
                THEN /\ pu.cpu_rate
                          = RateRule(u.cpu_usage, ns_quotas[key].cpu_limit)
                     /\ pu.memory_rate
                          = RateRule(u.memory_usage,
                                     ns_quotas[key].memory_limit)
                ELSE /\ pu.cpu_rate = NoneVal
                     /\ pu.memory_rate = NoneVal

----------------------------------------------------------------------------
(* Claims about the scheduler's threads (checked under SpecSched)          *)

\* C28: after any sequence of start and stop calls at most one loop thread
\* is live: a start while running starts no second thread, and a stop
\* followed by a start does not leave the earlier loop thread running next
\* to the new one.
C28_AtMostOneLoop == Cardinality(LiveLoops(scheduler)) <= 1

----------------------------------------------------------------------------
(* Claims about the keyed quota file (checked under SpecQuota)             *)

\* C29: the quota operations that fail return False (QuotaManager's update
\* returns None) and leave the file as it is: an add of a cloud_id that is
\* stored, an update or a delete of a cloud_id that is not; and after any
\* sequence of QuotaManager add, update and delete calls every entry's key
\* is the cloud_id of the quota stored under it.
C29_FailuresChangeNothing ==
    LET unchanged == [quotas |-> quotas_json, ok |-> FALSE]
    IN  /\ \A quota \in QuotaInputs :
               KeyIndex(quotas_json, quota.cloud_id) # 0 =>
                   /\ add_quota(quotas_json, quota) = unchanged
                   /\ QuotaManager_add_quota(quotas_json, quota.cloud_id,
                          quota.project_name, quota.cpu_quota,
                          quota.memory_quota) = unchanged
        /\ \A cloud_id \in CloudIds :
               KeyIndex(quotas_json, cloud_id) = 0 =>
                   /\ \A quota \in QuotaInputs :
                          update_quota(quotas_json, cloud_id, quota)
                            = unchanged
                   /\ \A update \in QuotaUpdates :
                          QuotaManager_update_quota(quotas_json, cloud_id,
                                                    update) = unchanged
                   /\ delete_quota(quotas_json, cloud_id) = unchanged
                   /\ QuotaManager_delete_quota(quotas_json, cloud_id)
                        = unchanged
        /\ \A i \in 1..Len(quotas_json) :
               quotas_json[i].key = quotas_json[i].value.cloud_id
        /\ ret.op = "create_quota" /\ ~ ret.ok =>
               Len(quotas_json) >= 1
        /\ ret.op \in {"update_quota", "delete_quota"} /\ ~ ret.ok =>
               Len(quotas_json) < Cardinality(CloudIds)

\* c1 was created, updated to other caps, and a second create of c1 was
\* refused
C29_Witness ==
    /\ ret.op = "create_quota"
    /\ ~ ret.ok
    /\ quotas_json = <<Item("c1", Quota("c1", "p2", 100, 0))>>

----------------------------------------------------------------------------
(* Claims about the outcome of the accurate sync (checked under SpecKube)  *)

\* the project a usage is stored under
StoredUnder(usage) ==
    IF usage.project_name = "" THEN usage.namespace ELSE usage.project_name

\* the namespaces the cluster returned to the client
ReturnedNamespaces == IF k8s_client.base_url THEN Listed ELSE <<>>

\* what the claim says of a sync of the namespaces listed
OutcomeFor(listed) ==
    IF listed = <<>>
    THEN /\ sync.done
         /\ ~ sync.success
         /\ sync.imported = 0
         /\ sync.errors = <<"No namespaces found">>
         /\ cache = EmptyDict
         /\ log = <<>>
    ELSE /\ sync.done
         /\ sync.success
         /\ sync.imported = Len(listed)
         /\ Len(log) = Len(listed)
         /\ \A i \in 1..Len(listed) :
                /\ log[i].date = SyncDate
                /\ Len(log[i].usages) = 1
                /\ log[i].usages[1].cloud_id
                     = QuotaKey(ClusterName, listed[i])
                /\ log[i].usages[1].project_name
                     = StoredUnder(sync.usages[i])
                /\ log[i].usages[1].cpu_usage = sync.usages[i].cpu_usage
                /\ log[i].usages[1].memory_usage
                     = sync.usages[i].memory_usage
         /\ DOMAIN cache = {SyncDate}
         /\ \A i \in 1..Len(listed) :
                LET same == {j \in 1..Len(listed) :
                               StoredUnder(sync.usages[j])
                                 = StoredUnder(sync.usages[i])}
                    ids  == StoredIds(SyncDate,
                                      StoredUnder(sync.usages[i]))
                IN  /\ Cardinality(ids) = 1
                    /\ SetSum(heap, ids, "cpu_usage")
                         = SumOver(sync.usages, same, "cpu_usage")
                    /\ SetSum(heap, ids, "memory_usage")
                         = SumOver(sync.usages, same, "memory_usage")

\* C30: when the cluster returns no namespaces the sync returns success
\* False, imported 0 and the error "No namespaces found" and leaves the
\* cache as it was; in every other case it returns success True with
\* imported equal to the number of namespaces, and the cache has received
\* exactly one contribution per namespace under the date of the sync.
C30_SyncOutcome == ret.op = "sync" => OutcomeFor(ReturnedNamespaces)

=============================================================================
